---- MODULE Spec2Model ----
(***************************************************************************)
(* Model of constantipy: the analysis session (analysis.py), the scanner   *)
(* and loader that feed it (scanner.py, loader.py), the naming heuristics  *)
(* (heuristics.py) and the text patch engine (refactor.py).                *)
(*                                                                         *)
(* Text is modelled at two levels.  An identifier or a string value is a   *)
(* sequence of one-character strings, so that f"{base}_{n}", str.upper and *)
(* the regular expressions of heuristics.py are computed character by      *)
(* character.  A source line is a sequence of tokens; a column offset is   *)
(* a token index, and a literal occupies one token.                        *)
(***************************************************************************)
EXTENDS Integers, Sequences, FiniteSets, TLC

(***************************************************************************)
(* Characters                                                              *)
(***************************************************************************)
LowerChars == {"a", "b", "c", "d", "e", "f", "g", "h", "i", "j", "k", "l", "m",
               "n", "o", "p", "q", "r", "s", "t", "u", "v", "w", "x", "y", "z"}

UpperChars == {"A", "B", "C", "D", "E", "F", "G", "H", "I", "J", "K", "L", "M",
               "N", "O", "P", "Q", "R", "S", "T", "U", "V", "W", "X", "Y", "Z"}

DigitChars == {"0", "1", "2", "3", "4", "5", "6", "7", "8", "9"}

IsAlnum(c) == c \in LowerChars \cup UpperChars \cup DigitChars

\* str.upper on one character
UpperOf(c) ==
    CASE c = "a" -> "A" [] c = "b" -> "B" [] c = "c" -> "C" [] c = "d" -> "D"
      [] c = "e" -> "E" [] c = "f" -> "F" [] c = "g" -> "G" [] c = "h" -> "H"
      [] c = "i" -> "I" [] c = "j" -> "J" [] c = "k" -> "K" [] c = "l" -> "L"
      [] c = "m" -> "M" [] c = "n" -> "N" [] c = "o" -> "O" [] c = "p" -> "P"
      [] c = "q" -> "Q" [] c = "r" -> "R" [] c = "s" -> "S" [] c = "t" -> "T"
      [] c = "u" -> "U" [] c = "v" -> "V" [] c = "w" -> "W" [] c = "x" -> "X"
      [] c = "y" -> "Y" [] c = "z" -> "Z" [] OTHER -> c

Upper(s) == [i \in 1..Len(s) |-> UpperOf(s[i])]

\* str(n) for a natural number
DigitOf(d) ==
    CASE d = 0 -> "0" [] d = 1 -> "1" [] d = 2 -> "2" [] d = 3 -> "3"
      [] d = 4 -> "4" [] d = 5 -> "5" [] d = 6 -> "6" [] d = 7 -> "7"
      [] d = 8 -> "8" [] OTHER -> "9"

RECURSIVE Digits(_)
Digits(n) == IF n < 10 THEN <<DigitOf(n)>>
             ELSE Digits(n \div 10) \o <<DigitOf(n % 10)>>

StartsWith(s, p) == Len(s) >= Len(p) /\ SubSeq(s, 1, Len(p)) = p

EndsWith(s, p) == Len(s) >= Len(p) /\ SubSeq(s, Len(s) - Len(p) + 1, Len(s)) = p

\* str.strip("_")
RECURSIVE StripUnderscore(_)
StripUnderscore(s) ==
    IF s = <<>> THEN s
    ELSE IF s[1] = "_" THEN StripUnderscore(Tail(s))
    ELSE IF s[Len(s)] = "_" THEN StripUnderscore(SubSeq(s, 1, Len(s) - 1))
    ELSE s

\* str.strip() (blanks only)
RECURSIVE StripBlank(_)
StripBlank(s) ==
    IF s = <<>> THEN s
    ELSE IF s[1] = " " THEN StripBlank(Tail(s))
    ELSE IF s[Len(s)] = " " THEN StripBlank(SubSeq(s, 1, Len(s) - 1))
    ELSE s

(***************************************************************************)
(* heuristics.py                                                           *)
(***************************************************************************)
\* end (exclusive index) of the run of lower-case letters that starts at j
RECURSIVE LowerRunEnd(_, _)
LowerRunEnd(s, j) ==
    IF j <= Len(s) /\ s[j] \in LowerChars THEN LowerRunEnd(s, j + 1) ELSE j

\* re.sub("(.)([A-Z][a-z]+)", r"\1_\2", text), scanning from position i
RECURSIVE CamelPass1(_, _)
CamelPass1(s, i) ==
    IF i > Len(s) THEN <<>>
    ELSE IF /\ i + 2 <= Len(s)
            /\ s[i + 1] \in UpperChars
            /\ s[i + 2] \in LowerChars
         THEN LET e == LowerRunEnd(s, i + 2)
              IN  <<s[i], "_">> \o SubSeq(s, i + 1, e - 1) \o CamelPass1(s, e)
         ELSE <<s[i]>> \o CamelPass1(s, i + 1)

\* re.sub("([a-z0-9])([A-Z])", r"\1_\2", s1), scanning from position i
RECURSIVE CamelPass2(_, _)
CamelPass2(s, i) ==
    IF i > Len(s) THEN <<>>
    ELSE IF /\ i + 1 <= Len(s)
            /\ s[i] \in LowerChars \cup DigitChars
            /\ s[i + 1] \in UpperChars
         THEN <<s[i], "_", s[i + 1]>> \o CamelPass2(s, i + 2)
         ELSE <<s[i]>> \o CamelPass2(s, i + 1)

split_camel_case(text) == CamelPass2(CamelPass1(text, 1), 1)

\* re.sub(r"[^a-zA-Z0-9]+", "_", s): every maximal run of other characters
\* becomes one underscore
RECURSIVE ReplaceNonAlnum(_, _)
ReplaceNonAlnum(s, i) ==
    IF i > Len(s) THEN <<>>
    ELSE IF IsAlnum(s[i]) THEN <<s[i]>> \o ReplaceNonAlnum(s, i + 1)
    ELSE IF i > 1 /\ ~IsAlnum(s[i - 1]) THEN ReplaceNonAlnum(s, i + 1)
    ELSE <<"_">> \o ReplaceNonAlnum(s, i + 1)

\* re.sub(r"_+", "_", s)
RECURSIVE CollapseUnderscore(_, _)
CollapseUnderscore(s, i) ==
    IF i > Len(s) THEN <<>>
    ELSE IF s[i] = "_" /\ i > 1 /\ s[i - 1] = "_" THEN CollapseUnderscore(s, i + 1)
    ELSE <<s[i]>> \o CollapseUnderscore(s, i + 1)

STR_ == <<"S", "T", "R", "_">>

STR_EMPTY == <<"S", "T", "R", "_", "E", "M", "P", "T", "Y">>

STR_CONST_ == <<"S", "T", "R", "_", "C", "O", "N", "S", "T", "_">>

CONST_ == <<"C", "O", "N", "S", "T", "_">>

HintSuffix(type_hint) ==
    CASE type_hint = "regex" -> <<"_", "R", "E">>
      [] type_hint = "sql" -> <<"_", "S", "Q", "L">>
      [] type_hint = "url" -> <<"_", "U", "R", "L">>
      [] type_hint = "path" -> <<"_", "P", "A", "T", "H">>
      [] OTHER -> <<>>

_name_from_str(val, idx, type_hint) ==
    IF val = <<>> THEN STR_EMPTY
    ELSE
      LET processed == split_camel_case(val)
          clean0 == Upper(StripUnderscore(
                        CollapseUnderscore(ReplaceNonAlnum(processed, 1), 1)))
          clean1 == IF clean0 = <<>> \/ clean0[1] \in DigitChars
                    THEN STR_ \o clean0 ELSE clean0
          clean2 == IF HintSuffix(type_hint) # <<>>
                       /\ ~EndsWith(clean1, HintSuffix(type_hint))
                    THEN clean1 \o HintSuffix(type_hint) ELSE clean1
          clean3 == IF Len(clean2) > 50
                    THEN SubSeq(clean2, 1, 46) \o <<"_", "E", "T", "C">>
                    ELSE clean2
      IN  IF Len(clean3) < 3 THEN STR_CONST_ \o Digits(idx) ELSE clean3

\* Values are typed: the identity key of a literal is (type, value).
StrVal(chars) == [type |-> "str", val |-> chars]

NoValue == [type |-> "none", val |-> <<>>]

\* str.replace(c, r) for a character c
RECURSIVE ReplaceChar(_, _, _)
ReplaceChar(s, c, r) ==
    IF s = <<>> THEN <<>>
    ELSE (IF Head(s) = c THEN r ELSE <<Head(s)>>) \o ReplaceChar(Tail(s), c, r)

\* _name_from_int; text is str(val)
_name_from_int(text) ==
    <<"I", "N", "T", "_">> \o ReplaceChar(text, "-", <<"N", "E", "G", "_">>)

\* _name_from_float; text is str(val)
_name_from_float(text) ==
    <<"F", "L", "O", "A", "T", "_">>
    \o ReplaceChar(ReplaceChar(ReplaceChar(text, ".", <<"_">>),
                               "-", <<"N", "E", "G", "_">>),
                   "+", <<"_">>)

\* A byte is a one-character string when it is an ASCII character; NonAscii
\* stands for a byte above 0x7f, on which val.decode("ascii") fails.
NonAscii == "x80"

\* _name_from_bytes; md5 is hashlib.md5(val).hexdigest()[:8].  The value
\* decodes when it holds no byte above 0x7f, and the decoded text is printable
\* when it holds no control character.
_name_from_bytes(val, md5) ==
    LET clean == Upper(StripUnderscore(ReplaceNonAlnum(val, 1)))
        full == <<"B", "Y", "T", "E", "S", "_">> \o clean
    IN  IF /\ \A i \in 1..Len(val) : val[i] \notin {NonAscii, "\n", "\t", "\r"}
           /\ clean # <<>>
        THEN SubSeq(full, 1, IF Len(full) > 50 THEN 50 ELSE Len(full))
        ELSE <<"B", "Y", "T", "E", "S", "_">> \o Upper(md5)

generate_name(val, strategy, idx, type_hint) ==
    IF strategy = "generic" THEN CONST_ \o Digits(idx)
    ELSE IF val.type = "str" THEN _name_from_str(val.val, idx, type_hint)
    ELSE IF val.type = "int" THEN _name_from_int(val.val)
    ELSE IF val.type = "float" THEN _name_from_float(val.val)
    ELSE IF val.type = "bytes" THEN _name_from_bytes(val.val, val.md5)
    ELSE <<>>       \* raise TypeError: no name

determine_type_hint(val, is_regex_arg) ==
    IF val.type # "str" THEN "none"
    ELSE IF is_regex_arg THEN "regex"
    ELSE LET stripped == Upper(StripBlank(val.val))
             raw == StripBlank(val.val)
         IN  IF \E kw \in {<<"S", "E", "L", "E", "C", "T", " ">>,
                           <<"I", "N", "S", "E", "R", "T", " ">>,
                           <<"U", "P", "D", "A", "T", "E", " ">>,
                           <<"D", "E", "L", "E", "T", "E", " ">>,
                           <<"C", "R", "E", "A", "T", "E", " ">>} :
                    StartsWith(stripped, kw)
             THEN "sql"
             ELSE IF \E p \in {<<"h", "t", "t", "p", ":", "/", "/">>,
                               <<"h", "t", "t", "p", "s", ":", "/", "/">>} :
                         StartsWith(raw, p)
             THEN "url"
             ELSE IF \E p \in {<<"/">>, <<".", "/">>, <<".", ".", "/">>} :
                         StartsWith(raw, p)
             THEN "path"
             ELSE "none"

(***************************************************************************)
(* Source text: tokens and lines                                           *)
(***************************************************************************)
Nm(name) == [k |-> "name", n |-> name, v |-> NoValue]

Lit(value) == [k |-> "lit", n |-> <<>>, v |-> value]

Sym(s) == [k |-> s, n |-> <<>>, v |-> NoValue]

NL == Sym("\n")

EQ == Sym("=")

INDENT == Sym("indent")

\* the last token of a line that ends in a newline is NL
EndsNL(line) == line # <<>> /\ line[Len(line)] = NL

Indented(line) == line # <<>> /\ line[1] = INDENT

\* str.strip() of a line: without the leading indentation and the newline
RECURSIVE StripLine(_)
StripLine(line) ==
    IF line = <<>> THEN line
    ELSE IF line[1] = INDENT THEN StripLine(Tail(line))
    ELSE IF line[Len(line)] = NL THEN StripLine(SubSeq(line, 1, Len(line) - 1))
    ELSE line

\* the statement a line holds, as ast.parse classifies it
Kind(line) ==
    LET core == StripLine(line)
    IN  IF core = <<>> THEN "blank"
        ELSE IF core[1].k \in {"#", "#!"} THEN "comment"
        ELSE IF core[1].k = "from" THEN "import"
        ELSE IF core[1].k = "def" THEN "def"
        ELSE IF Len(core) >= 3 /\ core[1].k = "name" /\ core[2] = EQ THEN "assign"
        ELSE "expr"

IsCode(line) == Kind(line) \notin {"blank", "comment"}

\* index of the last statement before line i, 0 if there is none
RECURSIVE PrevCode(_, _)
PrevCode(lines, i) ==
    IF i <= 1 THEN 0
    ELSE IF IsCode(lines[i - 1]) THEN i - 1
    ELSE PrevCode(lines, i - 1)

\* index of the first statement after line i, 0 if there is none
RECURSIVE NextCode(_, _)
NextCode(lines, i) ==
    IF i >= Len(lines) THEN 0
    ELSE IF IsCode(lines[i + 1]) THEN i + 1
    ELSE NextCode(lines, i + 1)

\* ast.parse succeeds: an indented statement continues the body of a def,
\* every def has a body, a def is not nested
Parses(lines) ==
    \A i \in 1..Len(lines) :
        IsCode(lines[i]) =>
          /\ Indented(lines[i]) =>
                /\ Kind(lines[i]) # "def"
                /\ PrevCode(lines, i) # 0
                /\ \/ Indented(lines[PrevCode(lines, i)])
                   \/ Kind(lines[PrevCode(lines, i)]) = "def"
          /\ Kind(lines[i]) = "def" =>
                /\ NextCode(lines, i) # 0
                /\ Indented(lines[NextCode(lines, i)])

\* the names an import-from line binds
ImportedNames(line) ==
    LET core == StripLine(line)
    IN  {core[j].n : j \in {j \in 4..Len(core) : core[j].k = "name"}}

(***************************************************************************)
(* scanner.py                                                              *)
(***************************************************************************)
MinLength == 4

\* _mark_docstring: line i is the docstring of the module or of a def
IsDocstring(lines, i) ==
    LET core == StripLine(lines[i])
    IN  /\ Len(core) = 1
        /\ core[1].k = "lit"
        /\ core[1].v.val # <<>>
        /\ \/ PrevCode(lines, i) = 0
           \/ Kind(lines[PrevCode(lines, i)]) = "def"

\* CodebaseScanner._collect_names over the statements of the module body
_collect_names(lines) ==
    UNION {
        LET core == StripLine(lines[i])
        IN  IF Indented(lines[i]) THEN {}
            ELSE IF Kind(lines[i]) = "def" THEN {core[2].n}
            ELSE IF Kind(lines[i]) = "assign" THEN {core[1].n}
            ELSE IF Kind(lines[i]) = "import" THEN ImportedNames(lines[i])
            ELSE {}
        : i \in 1..Len(lines)}

\* visit_Constant / _handle_str_constant for the token at column j of line i
Recorded(lines, i, j) ==
    /\ IsCode(lines[i])
    /\ lines[i][j].k = "lit"
    /\ ~IsDocstring(lines, i)
    /\ Len(lines[i][j].v.val) >= MinLength

Occurrence(filepath, lines, i, j) ==
    [value |-> lines[i][j].v,
     lineno |-> i,
     col_offset |-> j - 1,
     end_lineno |-> i,
     end_col_offset |-> j,
     is_regex_arg |-> (j > 1 /\ lines[i][j - 1].k = "re.compile("),
     definition_of |-> <<>>,
     filepath |-> filepath]

\* the literals of one line from column j on, left to right
RECURSIVE LineLiterals(_, _, _, _)
LineLiterals(filepath, lines, i, j) ==
    IF j > Len(lines[i]) THEN <<>>
    ELSE (IF Recorded(lines, i, j)
          THEN <<Occurrence(filepath, lines, i, j)>> ELSE <<>>)
         \o LineLiterals(filepath, lines, i, j + 1)

\* the literals of the file from line i on, in visiting order
RECURSIVE FileLiterals(_, _, _)
FileLiterals(filepath, lines, i) ==
    IF i > Len(lines) THEN <<>>
    ELSE LineLiterals(filepath, lines, i, 1) \o FileLiterals(filepath, lines, i + 1)

\* scan_file: (literals, names); a file that does not parse yields nothing
scan_file(filepath, lines) ==
    IF Parses(lines)
    THEN [literals |-> FileLiterals(filepath, lines, 1), names |-> _collect_names(lines)]
    ELSE [literals |-> <<>>, names |-> {}]

(***************************************************************************)
(* loader.py                                                               *)
(***************************************************************************)
ConstantsPath == "constants.py"

\* the single-name assignments of the file, at any depth (generic_visit
\* descends into function bodies), in source order
AssignLines(lines) == SelectSeq(lines, LAMBDA l : Kind(l) = "assign")

\* ConstantLoader.visit_Assign applied to the assignments of current_file in
\* order: a later binding of the same value replaces the earlier one
RECURSIVE VisitAssigns(_, _, _)
VisitAssigns(assigns, details, current_file) ==
    IF assigns = <<>> THEN details
    ELSE LET core == StripLine(Head(assigns))
             isConst == Len(core) = 3 /\ core[3].k = "lit"
             entry == [name |-> core[1].n, source |-> current_file, scope |-> "global"]
         IN  VisitAssigns(Tail(assigns),
                 IF isConst
                 THEN [x \in DOMAIN details \cup {core[3].v} |->
                          IF x = core[3].v THEN entry ELSE details[x]]
                 ELSE details,
                 current_file)

EmptyMap == [x \in {} |-> NoValue]

\* the loop of load_all_constants over paths_to_check: one loader visits
\* every file that parses; a file that does not parse is passed over
RECURSIVE LoadPaths(_, _)
LoadPaths(paths_to_check, loader) ==
    IF paths_to_check = <<>> THEN loader
    ELSE LET path == Head(paths_to_check).path
             lines == Head(paths_to_check).lines
         IN  LoadPaths(Tail(paths_to_check),
                 IF Parses(lines)
                 THEN [existing_map |-> VisitAssigns(AssignLines(lines),
                                                     loader.existing_map, path),
                       reserved |-> loader.reserved
                                    \cup {StripLine(AssignLines(lines)[i])[1].n :
                                             i \in 1..Len(AssignLines(lines))}]
                 ELSE loader)

\* load_all_constants: (value_to_details, defined_names); extra holds the
\* extra files that exist, the target file comes last
load_all_constants(exists, lines, extra) ==
    LoadPaths(extra \o (IF exists THEN <<[path |-> ConstantsPath, lines |-> lines]>>
                        ELSE <<>>),
              [existing_map |-> EmptyMap, reserved |-> {}])

(***************************************************************************)
(* analysis.py: RefactoringSession                                         *)
(***************************************************************************)
\* Counter lookup: a missing key counts 0
Count(tracker, name) == IF name \in DOMAIN tracker THEN tracker[name] ELSE 0

\* Counter increment
Incr(tracker, name) ==
    [x \in DOMAIN tracker \cup {name} |->
        IF x = name THEN Count(tracker, name) + 1 ELSE tracker[x]]

\* f"{base_name}_{n}"
Suffixed(base_name, n) == base_name \o <<"_">> \o Digits(n)

\* the while loop of _resolve_collision
RECURSIVE CollisionLoop(_, _, _, _)
CollisionLoop(base_name, reserved_names, tracker, name) ==
    IF name \in reserved_names
    THEN LET t2 == Incr(tracker, base_name)
         IN  CollisionLoop(base_name, reserved_names, t2,
                           Suffixed(base_name, Count(t2, base_name) + 1))
    ELSE [name |-> name, tracker |-> tracker]

_resolve_collision(base_name, reserved_names, tracker) ==
    LET count == Count(tracker, base_name)
        name == IF count > 0 THEN Suffixed(base_name, count + 1) ELSE base_name
    IN  CollisionLoop(base_name, reserved_names, tracker, name)

UniqueFiles(occurrences) == {occurrences[i].filepath : i \in 1..Len(occurrences)}

ExistingDefs(occurrences) ==
    {occurrences[i].definition_of :
        i \in {j \in 1..Len(occurrences) : occurrences[j].definition_of # <<>>}}

\* the scope decision without the file count
IsGlobalScope_ForcedOnly(unique_files, force_global) == force_global

\* _create_new_constant: `if force_global or len(unique_files) > 1`
IsGlobalScope(unique_files, force_global) ==
    force_global \/ Cardinality(unique_files) > 1

\* _create_new_constant: `source_path = str(self.config.constants_path)` or
\* `source_path = list(unique_files)[0]`
SourcePath(isGlobal, unique_files) ==
    IF isGlobal THEN ConstantsPath ELSE CHOOSE f \in unique_files : TRUE

\* _create_new_constant: `self.global_reserved.copy()` or
\* `self.file_scope_names[source_path].copy()` (a defaultdict)
ReservedNames(isGlobal, source_path, greserved, fnames) ==
    IF isGlobal THEN greserved
    ELSE IF source_path \in DOMAIN fnames THEN fnames[source_path]
    ELSE {}

\* _create_new_constant: `if base_name in existing_defs: reserved.discard(base_name)`
Discard(reserved, base_name, existing_defs) ==
    IF base_name \in existing_defs THEN reserved \ {base_name} ELSE reserved

\* _create_new_constant: `if final_name in existing_defs: is_new = False`, in
\* the local branch only
IsNew(isGlobal, final_name, existing_defs) ==
    ~(~isGlobal /\ final_name \in existing_defs)

\* _create_new_constant after _resolve_collision returned res: the returned
\* tuple, the updated name_tracker and idx (with the base name and the
\* reserved set that were resolved)
Created(res, base_name, reserved, isGlobal, source_path, existing_defs, index) ==
    [final_name |-> res.name,
     base_name |-> base_name,
     reserved |-> reserved,
     scope |-> IF isGlobal THEN "global" ELSE "local",
     source_path |-> source_path,
     is_new |-> IsNew(isGlobal, res.name, existing_defs),
     tracker |-> Incr(res.tracker, res.name),
     idx |-> IF IsNew(isGlobal, res.name, existing_defs) THEN index + 1 ELSE index]

\* _create_new_constant from the reserved set of the scope on
Resolved(base_name, reserved, isGlobal, source_path, existing_defs, tracker, index) ==
    Created(_resolve_collision(base_name, reserved, tracker), base_name, reserved,
            isGlobal, source_path, existing_defs, index)

\* _create_new_constant from the scope decision on
Scoped(base_name, existing_defs, isGlobal, source_path, greserved, fnames, tracker, index) ==
    Resolved(base_name,
             Discard(ReservedNames(isGlobal, source_path, greserved, fnames),
                     base_name, existing_defs),
             isGlobal, source_path, existing_defs, tracker, index)

\* _create_new_constant: name, scope, source path, is_new and the updated
\* name_tracker and idx
_create_new_constant(val, occurrences, cfg, greserved, fnames, tracker, index) ==
    Scoped(generate_name(val, cfg.naming_strategy, index,
                         determine_type_hint(val,
                             \E i \in 1..Len(occurrences) :
                                 occurrences[i].is_regex_arg)),
           ExistingDefs(occurrences),
           IsGlobalScope(UniqueFiles(occurrences), ~cfg.use_local_scope),
           SourcePath(IsGlobalScope(UniqueFiles(occurrences), ~cfg.use_local_scope),
                      UniqueFiles(occurrences)),
           greserved, fnames, tracker, index)

\* the report as a list that is appended to, never overwritten
SetItem_AlwaysAppend(rep, entry) == Append(rep, entry)

\* self.report[final_name] = {...}: an insertion-ordered dictionary; an
\* existing key keeps its position and gets the new entry
SetItem(rep, entry) ==
    IF \E i \in 1..Len(rep) : rep[i].name = entry.name
    THEN [i \in 1..Len(rep) |-> IF rep[i].name = entry.name THEN entry ELSE rep[i]]
    ELSE Append(rep, entry)

\* the reuse branch marking its entry as new
ReuseEntry_MarkedNew(val, occurrences, emap) ==
    [name |-> emap[val].name,
     value |-> val,
     occurrences |-> occurrences,
     is_new |-> TRUE,
     source_path |-> emap[val].source,
     scope |-> emap[val].scope]

\* _process_item, the branch of a value found in existing_map: its entry
ReuseEntry(val, occurrences, emap) ==
    [name |-> emap[val].name,
     value |-> val,
     occurrences |-> occurrences,
     is_new |-> FALSE,
     source_path |-> emap[val].source,
     scope |-> emap[val].scope]

\* _process_item, the branch of a value that is not in existing_map, after
\* _create_new_constant returned c
NewEntry(val, occurrences, c, rep) ==
    [report |-> SetItem(rep, [name |-> c.final_name,
                              value |-> val,
                              occurrences |-> occurrences,
                              is_new |-> c.is_new,
                              source_path |-> c.source_path,
                              scope |-> c.scope]),
     tracker |-> c.tracker,
     idx |-> c.idx]

\* _process_item: the updated report, name_tracker and idx
_process_item(val, occurrences, cfg, emap, greserved, fnames, tracker, index, rep) ==
    IF val \in DOMAIN emap
    THEN [report |-> SetItem(rep, ReuseEntry(val, occurrences, emap)),
          tracker |-> tracker,
          idx |-> index]
    ELSE NewEntry(val, occurrences,
                  _create_new_constant(val, occurrences, cfg, greserved, fnames,
                                       tracker, index),
                  rep)

\* the threshold test off by one
BelowMinimum_OffByOne(occurrences, min_count) == Len(occurrences) + 1 < min_count

\* analyze: `if len(occurrences) < self.config.min_count: continue`
BelowMinimum(occurrences, min_count) == Len(occurrences) < min_count

\* self.literal_map[(type(val), val)].append(lit) for the literals of one file
RECURSIVE AddLiterals(_, _)
AddLiterals(lmap, literals) ==
    IF literals = <<>> THEN lmap
    ELSE LET lit == Head(literals)
             next == IF \E i \in 1..Len(lmap) : lmap[i].key = lit.value
                     THEN [i \in 1..Len(lmap) |->
                              IF lmap[i].key = lit.value
                              THEN [lmap[i] EXCEPT !.occs = Append(@, lit)]
                              ELSE lmap[i]]
                     ELSE Append(lmap, [key |-> lit.value, occs |-> <<lit>>])
         IN  AddLiterals(next, Tail(literals))

\* the groups left in discovery order
SortedItems_Unsorted(items) == items

\* sorted(items, key=lambda x: len(x[1]), reverse=True): stable, so groups of
\* equal size keep their discovery order
RECURSIVE SortedItems(_)
SortedItems(items) ==
    IF items = <<>> THEN <<>>
    ELSE LET best == CHOOSE i \in 1..Len(items) :
                        /\ \A j \in 1..Len(items) : Len(items[j].occs) <= Len(items[i].occs)
                        /\ \A j \in 1..(i - 1) : Len(items[j].occs) < Len(items[i].occs)
             rest == [j \in 1..(Len(items) - 1) |->
                         IF j < best THEN items[j] ELSE items[j + 1]]
         IN  <<items[best]>> \o SortedItems(rest)

(***************************************************************************)
(* refactor.py: the text patch engine                                      *)
(***************************************************************************)
\* Python slices line[:c] and line[c:] for c >= 0
Take(line, c) == SubSeq(line, 1, IF c > Len(line) THEN Len(line) ELSE c)

Drop(line, c) == SubSeq(line, c + 1, Len(line))

\* list.insert(idx, x): an index past the end appends
InsertAt(lines, idx, x) ==
    LET at == IF idx > Len(lines) THEN Len(lines) ELSE idx
    IN  SubSeq(lines, 1, at) \o <<x>> \o SubSeq(lines, at + 1, Len(lines))

\* the text of the buffer cut after every newline: what f.writelines followed
\* by read().splitlines(keepends=True) gives
RECURSIVE Flatten(_)
Flatten(lines) == IF lines = <<>> THEN <<>> ELSE Head(lines) \o Flatten(Tail(lines))

RECURSIVE SplitLines(_, _)
SplitLines(text, cur) ==
    IF text = <<>> THEN (IF cur = <<>> THEN <<>> ELSE <<cur>>)
    ELSE IF Head(text) = NL
         THEN <<Append(cur, NL)>> \o SplitLines(Tail(text), <<>>)
         ELSE SplitLines(Tail(text), Append(cur, Head(text)))

WriteLines(lines) == SplitLines(Flatten(lines), <<>>)

\* find_insertion_line over the original content
find_insertion_line(content) ==
    IF ~Parses(content) THEN 0
    ELSE LET imports == {i \in 1..Len(content) :
                            Kind(content[i]) = "import" /\ ~Indented(content[i])}
             shebang == IF content # <<>> /\ content[1] # <<>> /\ content[1][1].k = "#!"
                        THEN 1 ELSE 0
             first == NextCode(content, 0)
             doc == IF first # 0 /\ ~Indented(content[first]) /\ IsDocstring(content, first)
                    THEN first ELSE 0
         IN  IF imports # {}
             THEN CHOOSE i \in imports : \A j \in imports : j <= i
             ELSE IF doc > shebang THEN doc ELSE shebang

\* one iteration of the loop of _apply_replacements; raised stands for the
\* IndexError of a multi-line span that ends past the buffer
ApplyOne(lines, rep) ==
    IF rep.definition_of = rep.name THEN [lines |-> lines, modified |-> FALSE, raised |-> FALSE]
    ELSE IF rep.start_line < 1 \/ rep.start_line > Len(lines)
    THEN [lines |-> lines, modified |-> FALSE, raised |-> FALSE]
    ELSE IF rep.start_line = rep.end_line
    THEN LET line == lines[rep.start_line]
         IN  IF rep.end_col > Len(line)
             THEN [lines |-> lines, modified |-> FALSE, raised |-> FALSE]
             ELSE [lines |-> [lines EXCEPT ![rep.start_line] =
                                 Take(line, rep.start_col) \o <<Nm(rep.name)>>
                                 \o Drop(line, rep.end_col)],
                   modified |-> TRUE, raised |-> FALSE]
    ELSE IF rep.end_line > Len(lines)
    THEN [lines |-> lines, modified |-> FALSE, raised |-> TRUE]
    ELSE [lines |-> [i \in 1..Len(lines) |->
                        IF i = rep.start_line
                        THEN Take(lines[i], rep.start_col) \o <<Nm(rep.name), NL>>
                        ELSE IF i > rep.start_line /\ i < rep.end_line THEN <<>>
                        ELSE IF i = rep.end_line /\ i > rep.start_line
                        THEN Drop(lines[i], rep.end_col)
                        ELSE lines[i]],
          modified |-> TRUE, raised |-> FALSE]

RECURSIVE ApplyLoop(_, _, _)
ApplyLoop(lines, replacements, modified) ==
    IF replacements = <<>> THEN [lines |-> lines, modified |-> modified, raised |-> FALSE]
    ELSE LET r == ApplyOne(lines, Head(replacements))
         IN  IF r.raised THEN [lines |-> lines, modified |-> modified, raised |-> TRUE]
             ELSE ApplyLoop(r.lines, Tail(replacements), modified \/ r.modified)

_apply_replacements(lines, replacements) == ApplyLoop(lines, replacements, FALSE)

\* sorted(names): lexicographic order of code points
AsciiOrder == <<"0", "1", "2", "3", "4", "5", "6", "7", "8", "9",
                "A", "B", "C", "D", "E", "F", "G", "H", "I", "J", "K", "L", "M",
                "N", "O", "P", "Q", "R", "S", "T", "U", "V", "W", "X", "Y", "Z",
                "_",
                "a", "b", "c", "d", "e", "f", "g", "h", "i", "j", "k", "l", "m",
                "n", "o", "p", "q", "r", "s", "t", "u", "v", "w", "x", "y", "z">>

Ord(c) == CHOOSE i \in 1..Len(AsciiOrder) : AsciiOrder[i] = c

RECURSIVE StrLess(_, _)
StrLess(a, b) ==
    IF b = <<>> THEN FALSE
    ELSE IF a = <<>> THEN TRUE
    ELSE IF a[1] = b[1] THEN StrLess(Tail(a), Tail(b))
    ELSE Ord(a[1]) < Ord(b[1])

RECURSIVE SortedNames(_)
SortedNames(names) ==
    IF names = {} THEN <<>>
    ELSE LET least == CHOOSE n \in names : \A m \in names \ {n} : StrLess(n, m)
         IN  <<least>> \o SortedNames(names \ {least})

ModuleName == <<"c", "o", "n", "s", "t", "a", "n", "t", "s">>

\* ", ".join(names)
RECURSIVE JoinNames(_)
JoinNames(names) ==
    IF names = <<>> THEN <<>>
    ELSE IF Len(names) = 1 THEN <<Nm(names[1])>>
    ELSE <<Nm(names[1]), Sym(",")>> \o JoinNames(Tail(names))

\* f"from {module_name} import {names_str}\n"
ImportStmt(names) ==
    <<Sym("from"), Nm(ModuleName), Sym("import")>> \o JoinNames(SortedNames(names)) \o <<NL>>

\* import_stmt.strip() in line: a substring test on the text, so the last
\* name of the statement matches any identifier of the line that it begins
TextIn(stmt, line) ==
    \E o \in 0..(Len(line) - Len(stmt)) :
        /\ \A j \in 1..(Len(stmt) - 1) : line[o + j] = stmt[j]
        /\ LET last == line[o + Len(stmt)]
           IN  /\ last.k = "name"
               /\ StartsWith(last.n, stmt[Len(stmt)].n)

\* _insert_global_imports
_insert_global_imports(lines, replacements, content) ==
    LET used_globals == {replacements[i].name :
                            i \in {j \in 1..Len(replacements) :
                                      replacements[j].scope = "global"}}
        import_stmt == ImportStmt(used_globals)
    IN  IF used_globals = {}
        THEN [lines |-> lines, imported |-> FALSE, names |-> {}]
        ELSE IF \E i \in 1..Len(lines) : TextIn(StripLine(import_stmt), lines[i])
        THEN [lines |-> lines, imported |-> FALSE, names |-> used_globals]
        ELSE [lines |-> InsertAt(lines, find_insertion_line(content), import_stmt),
              imported |-> TRUE, names |-> used_globals]

\* line.strip().startswith(f"{name} =") or ...startswith(f"{name}=")
IsLocalDefOf(line, imported_names) ==
    LET core == StripLine(line)
    IN  /\ Len(core) >= 2
        /\ core[1].k = "name"
        /\ core[1].n \in imported_names
        /\ core[2].k \in {"=", "=="}

\* _remove_redundant_locals
_remove_redundant_locals(lines, imported_names) ==
    LET kept == SelectSeq(lines, LAMBDA l : ~IsLocalDefOf(l, imported_names))
    IN  [lines |-> kept, modified |-> Len(kept) # Len(lines)]

\* replacements.sort(key=lambda x: (start_line, start_col), reverse=True):
\* stable, so replacements with equal keys keep their order
RepLess(a, b) ==
    \/ a.start_line < b.start_line
    \/ a.start_line = b.start_line /\ a.start_col < b.start_col

RECURSIVE SortReplacements(_)
SortReplacements(reps) ==
    IF reps = <<>> THEN <<>>
    ELSE LET best == CHOOSE i \in 1..Len(reps) :
                        /\ \A j \in 1..Len(reps) : ~RepLess(reps[i], reps[j])
                        /\ \A j \in 1..(i - 1) : RepLess(reps[j], reps[i])
             rest == [j \in 1..(Len(reps) - 1) |->
                         IF j < best THEN reps[j] ELSE reps[j + 1]]
         IN  <<reps[best]>> \o SortReplacements(rest)

\* f"{n} = {repr(v)}\n"
DefLine(name, value) == <<Nm(name), EQ, Lit(value), NL>>

\* inserting the definitions in reverse at one index leaves them in order
RECURSIVE InsertLocals(_, _, _)
InsertLocals(lines, idx, new_locals) ==
    IF new_locals = <<>> THEN lines
    ELSE InsertLocals(InsertAt(lines, idx, DefLine(new_locals[Len(new_locals)].name,
                                                   new_locals[Len(new_locals)].value)),
                      idx, SubSeq(new_locals, 1, Len(new_locals) - 1))

\* _apply_changes with a return value that leaves out the inserted import
_apply_changes_ImportUnreported(lines, replacements, new_locals, content) ==
    LET sorted == SortReplacements(replacements)
        r1 == _apply_replacements(lines, sorted)
        r2 == _insert_global_imports(r1.lines, sorted, content)
        r3 == IF r2.names # {} THEN _remove_redundant_locals(r2.lines, r2.names)
              ELSE [lines |-> r2.lines, modified |-> FALSE]
        insert_idx == find_insertion_line(content) + (IF r2.imported THEN 1 ELSE 0)
        r4 == IF new_locals # <<>> THEN InsertLocals(r3.lines, insert_idx, new_locals)
              ELSE r3.lines
    IN  [lines |-> r4,
         changed |-> r1.modified \/ (new_locals # <<>>) \/ r3.modified,
         replaced |-> r1.modified,
         imported |-> r2.imported,
         imported_names |-> r2.names,
         removed_locals |-> r3.modified,
         raised |-> r1.raised]

\* _apply_changes: the new buffer and whether anything changed
_apply_changes(lines, replacements, new_locals, content) ==
    LET sorted == SortReplacements(replacements)
        r1 == _apply_replacements(lines, sorted)
        r2 == _insert_global_imports(r1.lines, sorted, content)
        r3 == IF r2.names # {} THEN _remove_redundant_locals(r2.lines, r2.names)
              ELSE [lines |-> r2.lines, modified |-> FALSE]
        insert_idx == find_insertion_line(content) + (IF r2.imported THEN 1 ELSE 0)
        r4 == IF new_locals # <<>> THEN InsertLocals(r3.lines, insert_idx, new_locals)
              ELSE r3.lines
    IN  [lines |-> r4,
         changed |-> r1.modified \/ r2.imported \/ (new_locals # <<>>) \/ r3.modified,
         replaced |-> r1.modified,
         imported |-> r2.imported,
         imported_names |-> r2.names,
         removed_locals |-> r3.modified,
         raised |-> r1.raised]

\* content.splitlines(keepends=True), the last line given a newline
ReadLines(content) ==
    IF content # <<>> /\ ~EndsNL(content[Len(content)])
    THEN [content EXCEPT ![Len(content)] = Append(@, NL)]
    ELSE content

\* _process_single_file on a readable file
_process_single_file(content, replacements, new_locals) ==
    _apply_changes(ReadLines(content), replacements, new_locals, content)

\* dict.get on a report entry: data.get(key, default)
Get(data, key, default) == IF key \in DOMAIN data THEN data[key] ELSE default

\* data.get("is_new"): a missing flag is falsy
IsNewEntry(data) == Get(data, "is_new", FALSE)

\* _handle_global_constants: data.get("is_new") and data.get("scope") == "global"
IsNewGlobal(data) == IsNewEntry(data) /\ Get(data, "scope", "none") = "global"

\* _parse_occurrences: data.get("is_new") and data.get("scope", "global") == "local"
IsNewLocal(data) == IsNewEntry(data) /\ Get(data, "scope", "global") = "local"

\* _parse_occurrences: rep_map[fp]
RECURSIVE OccReps(_, _, _)
OccReps(entry, occs, fp) ==
    IF occs = <<>> THEN <<>>
    ELSE (IF Head(occs).filepath = fp
          THEN <<[name |-> entry.name,
                  source_path |-> Get(entry, "source_path", "none"),
                  scope |-> Get(entry, "scope", "global"),
                  start_line |-> Head(occs).lineno,
                  start_col |-> Head(occs).col_offset,
                  end_line |-> Head(occs).end_lineno,
                  end_col |-> Head(occs).end_col_offset,
                  definition_of |-> Get(Head(occs), "definition_of", <<>>)]>>
          ELSE <<>>) \o OccReps(entry, Tail(occs), fp)

RECURSIVE RepMap(_, _)
RepMap(rep, fp) ==
    IF rep = <<>> THEN <<>>
    ELSE OccReps(Head(rep), Head(rep).occurrences, fp) \o RepMap(Tail(rep), fp)

\* _parse_occurrences: loc_map[fp]
LocMap(rep, fp) ==
    SelectSeq(rep, LAMBDA e : IsNewLocal(e) /\ Get(e, "source_path", "none") = fp)

\* files_to_process
FilesToProcess(rep) ==
    {Get(e, "source_path", "none") :
        e \in {rep[i] : i \in {j \in 1..Len(rep) : IsNewLocal(rep[j])}}}
    \cup UNION {UniqueFiles(rep[i].occurrences) : i \in 1..Len(rep)}

\* _handle_global_constants: the text appended to the shared store
NewGlobals(rep) == SelectSeq(rep, IsNewGlobal)

HeaderLine == <<Sym("#"), NL>>

RECURSIVE GlobalDefs(_)
GlobalDefs(entries) ==
    IF entries = <<>> THEN <<>>
    ELSE <<DefLine(Head(entries).name, Head(entries).value)>> \o GlobalDefs(Tail(entries))

\* the append without the corrective newline
_handle_global_constants_NoPrefix(exists, lines, rep) ==
    LET header == IF ~exists \/ lines = <<>> THEN <<HeaderLine, <<NL>>>> ELSE <<>>
    IN  IF NewGlobals(rep) = <<>> THEN [exists |-> exists, lines |-> lines]
        ELSE [exists |-> TRUE, lines |-> lines \o header \o GlobalDefs(NewGlobals(rep))]

_handle_global_constants(exists, lines, rep) ==
    LET needs_header == ~exists \/ lines = <<>>
        header == IF needs_header THEN <<HeaderLine, <<NL>>>> ELSE <<>>
        fixed == IF exists /\ lines # <<>> /\ ~EndsNL(lines[Len(lines)])
                 THEN [lines EXCEPT ![Len(lines)] = Append(@, NL)]
                 ELSE lines
    IN  IF NewGlobals(rep) = <<>> THEN [exists |-> exists, lines |-> lines]
        ELSE [exists |-> TRUE, lines |-> fixed \o header \o GlobalDefs(NewGlobals(rep))]

\* _handle_global_constants: the key whose absence raises KeyError, if any
MissingInGlobals(rep) ==
    IF \E i \in 1..Len(rep) : IsNewGlobal(rep[i]) /\ "value" \notin DOMAIN rep[i]
    THEN "value" ELSE "none"

\* _parse_occurrences: the key whose absence raises KeyError first, if any
RECURSIVE MissingInParse(_)
MissingInParse(rep) ==
    IF rep = <<>> THEN "none"
    ELSE IF IsNewLocal(Head(rep)) /\ "value" \notin DOMAIN Head(rep) THEN "value"
    ELSE IF "occurrences" \notin DOMAIN Head(rep) THEN "occurrences"
    ELSE MissingInParse(Tail(rep))

\* process_report: the components of the project root and of a file's path
Root == <<"proj">>

\* Path(fp).relative_to(config.root), or Path(fp).name after ValueError
RelPath(parts, root) ==
    IF StartsWith(parts, root) THEN Drop(parts, Len(root)) ELSE <<parts[Len(parts)]>>

\* difflib.unified_diff(original, new_lines, fromfile=..., tofile=...): nothing
\* when the buffers are equal, else the two header lines and the hunks
UnifiedDiff(parts, original, new_lines) ==
    IF original = new_lines THEN {}
    ELSE {[kind |-> "diff",
           fromfile |-> <<"a">> \o RelPath(parts, Root),
           tofile |-> <<"b">> \o RelPath(parts, Root)]}

\* _handle_global_constants, preview: the two print calls
PreviewText(rep) ==
    IF NewGlobals(rep) = <<>> THEN {}
    ELSE {[kind |-> "preview", fromfile |-> <<>>, tofile |-> <<>>]}

(***************************************************************************)
(* The scanned directory: inputs of the model                              *)
(***************************************************************************)
MaxRuns == 2

Paths == {"a.py", "b.py"}

\* a file that a report names and that lies outside the project root
OutsidePaths == {"out.py"}

PathParts(fp) == IF fp \in OutsidePaths THEN <<"elsewhere", fp>> ELSE Root \o <<fp>>

magic == StrVal(<<"m", "a", "g", "i", "c">>)

Magic == StrVal(<<"M", "a", "g", "i", "c">>)

MAGICVAL == StrVal(<<"M", "A", "G", "I", "C">>)

magic_2 == StrVal(<<"m", "a", "g", "i", "c", " ", "2">>)

MAGIC == <<"M", "A", "G", "I", "C">>

MAGIC_2 == <<"M", "A", "G", "I", "C", "_", "2">>

Use(value) == <<Sym("print("), Lit(value), Sym(")"), NL>>

UseName(name) == <<Sym("print("), Nm(name), Sym(")"), NL>>

Assign(name, value) == <<Nm(name), EQ, Lit(value), NL>>

\* an assignment at the end of a file that does not end in a newline
NoNewline(name, value) == <<Nm(name), EQ, Lit(value)>>

DefF == <<Sym("def"), Nm(<<"f">>), NL>>

\* lines a scanned file is made of
LinePool ==
    {Assign(<<"x">>, magic), Assign(<<"y">>, Magic), Assign(MAGIC, magic),
     Use(magic), Use(Magic), Use(MAGICVAL), Use(magic_2), UseName(MAGIC),
     ImportStmt({MAGIC}), ImportStmt({MAGIC_2})}

\* second lines of the two-line files
SecondPool ==
    {Use(magic), Use(Magic), UseName(MAGIC), ImportStmt({MAGIC_2})}

FilesA ==
    {<<l>> : l \in LinePool}
    \cup {<<l, m>> : l \in LinePool, m \in SecondPool}
    \cup {<<Use(magic), Use(Magic), Use(MAGICVAL)>>,
          <<DefF, <<INDENT>> \o Assign(MAGIC, magic)>>,
          <<ImportStmt({MAGIC_2}), UseName(MAGIC_2), Use(magic)>>}

FilesB == {<<>>, <<Assign(<<"y">>, magic)>>, <<Use(Magic)>>, <<NoNewline(<<"z">>, magic)>>}

Stores ==
    {[exists |-> FALSE, lines |-> <<>>],
     [exists |-> TRUE, lines |-> <<Assign(MAGIC, magic)>>],
     [exists |-> TRUE, lines |-> <<Assign(MAGIC, magic), Assign(MAGIC_2, Magic)>>],
     [exists |-> TRUE, lines |-> <<NoNewline(MAGIC, Magic)>>],
     [exists |-> TRUE, lines |-> <<Assign(MAGIC, magic), Assign(MAGIC, Magic)>>]}

Configs ==
    [min_count : {1, 2}, use_local_scope : BOOLEAN,
     naming_strategy : {"derived", "generic"}, apply : BOOLEAN,
     extra_files : {<<>>}]

(***************************************************************************)
(* The refactor command: a report read from standard input, and the files  *)
(* it names                                                                *)
(***************************************************************************)
MaxLine == 4

MaxCol == 5

\* an occurrence as the report carries it
Occ(fp, l, c, el, ec) ==
    [filepath |-> fp, lineno |-> l, col_offset |-> c, end_lineno |-> el,
     end_col_offset |-> ec]

Entry(name, value, is_new, scope, occurrences) ==
    [name |-> name, value |-> value, is_new |-> is_new, scope |-> scope,
     source_path |-> IF scope = "local" THEN "a.py" ELSE ConstantsPath,
     occurrences |-> occurrences]

\* x = [ / 'magic' / ] + y : a literal expression that spans three lines
ListLiteral ==
    <<<<Nm(<<"x">>), EQ, Sym("["), NL>>,
      <<INDENT, Lit(magic), NL>>,
      <<Sym("]"), Sym("+"), Nm(<<"y">>), NL>>>>

\* def f / MAGIC = x (indented) / print('magic')
NestedAssign == <<DefF, <<INDENT, Nm(MAGIC), EQ, Nm(<<"x">>), NL>>, Use(magic)>>

RefactorFilesA ==
    {<<Use(magic)>>, <<Use(magic), Use(Magic)>>, ListLiteral, NestedAssign,
     <<Assign(MAGIC, magic), Use(magic)>>, <<NoNewline(<<"x">>, magic)>>}

RefactorStores ==
    {[exists |-> FALSE, lines |-> <<>>],
     [exists |-> TRUE, lines |-> <<>>],
     [exists |-> TRUE, lines |-> <<NoNewline(MAGIC_2, Magic)>>],
     [exists |-> TRUE, lines |-> <<Assign(MAGIC_2, Magic)>>]}

\* The reports read from standard input: one entry with one occurrence in
\* a.py, for every span and every kind of entry; occurrences in several files
\* and two entries in one file; entries that lack keys, alone or after a
\* complete entry.
Reports ==
    LET Spans == {sp \in [lineno : 1..(MaxLine - 1), col_offset : 0..2,
                          end_lineno : 1..MaxLine, end_col_offset : 1..MaxCol] :
                     sp.lineno <= sp.end_lineno}
        EntryKinds == [is_new : BOOLEAN, scope : {"local", "global"}]
        MissingKeys == SUBSET {"value", "is_new", "scope", "occurrences"} \ {{}}
        Without(data, K) == [k \in DOMAIN data \ K |-> data[k]]
        OfKind(kind) == Entry(MAGIC, magic, kind.is_new, kind.scope,
                              <<Occ("a.py", 1, 1, 1, 2)>>)
        Other == Entry(MAGIC_2, Magic, TRUE, "global", <<Occ("b.py", 1, 1, 1, 2)>>)
    IN  {<<Entry(MAGIC, magic, kind.is_new, kind.scope,
                 <<Occ("a.py", sp.lineno, sp.col_offset,
                       sp.end_lineno, sp.end_col_offset)>>)>> :
            sp \in Spans, kind \in EntryKinds}
        \cup {<<Entry(MAGIC, magic, TRUE, "global",
                      <<Occ("a.py", 1, 1, 1, 2), Occ("b.py", 1, 1, 1, 2)>>)>>,
              <<Entry(MAGIC, magic, TRUE, "global",
                      <<Occ("a.py", 1, 1, 1, 2), Occ("out.py", 1, 1, 1, 2)>>)>>,
              <<Entry(MAGIC, magic, FALSE, "global", <<Occ("out.py", 1, 1, 1, 2)>>)>>,
              <<Entry(MAGIC, magic, TRUE, "local", <<Occ("a.py", 1, 1, 1, 2)>>),
                Entry(MAGIC_2, Magic, TRUE, "global", <<Occ("a.py", 2, 1, 2, 2)>>)>>,
              <<Entry(MAGIC, magic, TRUE, "local", <<>>)>>,
              <<>>}
        \cup {<<Without(OfKind(kind), K)>> : kind \in EntryKinds, K \in MissingKeys}
        \cup {<<Other, Without(OfKind(kind), K)>> : kind \in EntryKinds, K \in MissingKeys}

\* print('magic', 'Magic') / x = [ / 'magic' / ] + 'Magic' : two literals in
\* one line, and a literal after the end of an expression of three lines
TwoSpanFile ==
    <<<<Sym("print("), Lit(magic), Sym(","), Lit(Magic), Sym(")"), NL>>,
      <<Nm(<<"x">>), EQ, Sym("["), NL>>,
      <<INDENT, Lit(magic), NL>>,
      <<Sym("]"), Sym("+"), Lit(Magic), NL>>>>

\* Reports of reused local constants with two or three spans of TwoSpanFile
\* that do not overlap, in every order: the spans of one entry, and of two
\* entries in one file.
EditReports ==
    LET Spans == {Occ("a.py", 1, 1, 1, 2), Occ("a.py", 1, 3, 1, 4),
                  Occ("a.py", 2, 0, 2, 1), Occ("a.py", 2, 2, 4, 1),
                  Occ("a.py", 4, 2, 4, 3)}
        Orders(n) == {o \in [1..n -> Spans] : \A i, j \in 1..n : o[i] = o[j] => i = j}
    IN  {<<Entry(MAGIC, magic, FALSE, "local", o)>> : o \in Orders(2) \cup Orders(3)}
        \cup {<<Entry(MAGIC, magic, FALSE, "local", <<o[1]>>),
                Entry(MAGIC_2, Magic, FALSE, "local", <<o[2]>>)>> : o \in Orders(2)}

\* Files that hold an import from the shared store and a definition of a
\* global name, with the reports that replace a literal below them by that
\* name: the import is already there, or it is another import and the
\* report also brings a new local constant, in either order.
CleanupInputs ==
    LET LOC == <<"L", "O", "C">>
        Defined == <<ImportStmt({MAGIC}), Assign(MAGIC, magic), Use(magic)>>
        Zombie == <<Assign(MAGIC_2, Magic), ImportStmt({MAGIC}), Use(Magic), Use(MAGICVAL)>>
        Global(occurrences) == Entry(MAGIC_2, Magic, TRUE, "global", occurrences)
        Local == Entry(LOC, MAGICVAL, TRUE, "local", <<Occ("a.py", 4, 1, 4, 2)>>)
    IN  {[file |-> Defined,
          report |-> <<Entry(MAGIC, magic, new, "global", <<Occ("a.py", 3, 1, 3, 2)>>)>>] :
            new \in BOOLEAN}
        \cup {[file |-> Zombie, report |-> r] :
                r \in {<<Global(<<Occ("a.py", 3, 1, 3, 2)>>), Local>>,
                       <<Local, Global(<<Occ("a.py", 3, 1, 3, 2)>>)>>,
                       <<Global(<<Occ("a.py", 1, 2, 1, 3), Occ("a.py", 3, 1, 3, 2)>>), Local>>,
                       <<Local>>,
                       <<Global(<<Occ("a.py", 3, 1, 3, 2)>>)>>}}

\* what the refactor command is run on: the file a.py and the report
RefactorInputs ==
    {[file |-> f, report |-> r] : f \in RefactorFilesA, r \in Reports}
    \cup {[file |-> TwoSpanFile, report |-> r] : r \in EditReports}
    \cup CleanupInputs

(***************************************************************************)
(* The loader: shared stores and extra constants files of every shape      *)
(***************************************************************************)
\* a constants file given with --extra-constants; it lies outside the
\* scanned directory
ExtraPath == "extra.py"

\* The stores of one and two lines made of top-level bindings, a binding in
\* the body of a def, a destructuring assignment and a computed right-hand
\* side; a store that does not exist.
LoaderStores ==
    LET Destructuring == <<Nm(<<"a">>), Sym(","), Nm(<<"b">>), EQ,
                           Lit(magic), Sym(","), Lit(Magic), NL>>
        Computed == <<Nm(MAGIC), EQ, Lit(magic), Sym("+"), Lit(Magic), NL>>
        Lines == {Assign(MAGIC, magic), Assign(MAGIC_2, Magic),
                  <<INDENT>> \o Assign(MAGIC, magic), DefF, Destructuring, Computed}
    IN  {[exists |-> FALSE, lines |-> <<>>]}
        \cup {[exists |-> TRUE, lines |-> <<l>>] : l \in Lines}
        \cup {[exists |-> TRUE, lines |-> <<l, m>>] : l \in Lines, m \in Lines}

\* the extra constants file on disk: absent, binding a value, binding it in
\* the body of a def, or not parsing
LoaderExtras ==
    {<<>>, <<<<Assign(MAGIC, magic)>>>>, <<<<Assign(MAGIC_2, magic)>>>>,
     <<<<DefF, <<INDENT>> \o Assign(MAGIC, magic)>>>>,
     <<<<<<INDENT>> \o Assign(MAGIC, magic)>>>>}

(***************************************************************************)
(* generate_name: the values it is called with                             *)
(***************************************************************************)
\* The text values: empty, too short, without a letter or digit, starting
\* with a digit, ordinary, spelling a fallback name, and of 46 to 51
\* characters.  The integers and reals by their str(): of few digits, negative,
\* and of 46 and 47 digits; exponents, inf and nan.  The byte strings with the
\* first eight digits of their MD5: printable, empty, not ASCII, not
\* printable, and of 44 and 60 characters.
NameValues ==
    LET Many(c, n) == [i \in 1..n |-> c]
        Typed(type, texts) == {[type |-> type, val |-> t] : t \in texts}
    IN  Typed("str", {<<>>, <<"a">>, <<"a", "b">>, <<"a", "!", "!">>, <<"!", "!", "!">>,
                      <<"9", "l", "i", "v", "e", "s">>, magic.val, Magic.val,
                      <<"s", "t", "r", "_", "e", "m", "p", "t", "y">>,
                      <<"S", "t", "r", "E", "m", "p", "t", "y">>,
                      <<"s", "t", "r", " ", "c", "o", "n", "s", "t", " ", "1">>,
                      <<"h", "t", "t", "p", ":", "/", "/", "a", ".", "b">>,
                      Many("A", 46), Many("A", 47), Many("A", 50), Many("A", 51)})
        \cup Typed("int", {<<"0">>, <<"-", "5">>, <<"1", "2", "3", "4">>,
                           <<"1">> \o Many("0", 45), <<"1">> \o Many("0", 46)})
        \cup Typed("float", {<<"1", ".", "5">>, <<"-", "0", ".", "0">>,
                             <<"1", "e", "-", "0", "5">>, <<"1", "e", "+", "1", "6">>,
                             <<"i", "n", "f">>, <<"-", "i", "n", "f">>, <<"n", "a", "n">>})
        \cup {[type |-> "bytes", val |-> t, md5 |-> h] :
                 t \in {<<"a", "b", "c">>, <<>>, <<NonAscii, NonAscii>>, <<"a", "\n">>,
                        <<"!", "!">>, Many("a", 44), Many("a", 60)},
                 h \in {<<"d", "4", "1", "d", "8", "c", "d", "9">>,
                        <<"0", "0", "0", "0", "0", "0", "0", "0">>}}

(***************************************************************************)
(* State                                                                   *)
(***************************************************************************)
VARIABLES
    files,              \* path -> lines of the file on disk
    store,              \* the shared constants file: [exists, lines]
    cfg,                \* Config
    pc,                 \* position in cli.run: load, scan, analyze, patch, done
    run,                \* number of the engine run in progress
    toScan,             \* files os.walk has not yielded yet
    existing_map, loaded_reserved, global_reserved, file_scope_names,
    literal_map, name_tracker, report, idx,     \* RefactoringSession
    items,              \* sorted_items not yet processed
    toPatch,            \* files_to_process not yet processed
    start,              \* files and store when the current run started
    after,              \* files and store at the end of each finished run
    calls,              \* the _resolve_collision calls of the current run
    stdout,             \* what process_report has printed (as a set)
    stderr,             \* what eprint has reported (as a set)
    error,              \* the exception that ended the run, if any
    naming              \* a call of generate_name and what it returned

vars == <<files, store, cfg, pc, run, toScan, existing_map, loaded_reserved,
          global_reserved, file_scope_names, literal_map, name_tracker, report,
          idx, items, toPatch, start, after, calls, stdout, stderr, error, naming>>

console == <<stdout, stderr, error>>

NoError == [type |-> "none", detail |-> "none"]

session == <<existing_map, loaded_reserved, global_reserved, file_scope_names,
             literal_map, name_tracker, report, idx>>

NoNames == [x \in {} |-> {}]

NoCounts == [x \in {} |-> 0]

\* RefactoringSession.__init__
NewSession ==
    /\ existing_map' = EmptyMap
    /\ loaded_reserved' = {}
    /\ global_reserved' = {}
    /\ file_scope_names' = NoNames
    /\ literal_map' = <<>>
    /\ name_tracker' = NoCounts
    /\ report' = <<>>
    /\ idx' = 1

Init ==
    /\ \E fa \in FilesA, fb \in FilesB :
          files = [fp \in Paths |-> IF fp = "a.py" THEN fa ELSE fb]
    /\ store \in Stores
    /\ cfg \in Configs
    /\ pc = "load"
    /\ run = 1
    /\ toScan = {}
    /\ existing_map = EmptyMap
    /\ loaded_reserved = {}
    /\ global_reserved = {}
    /\ file_scope_names = NoNames
    /\ literal_map = <<>>
    /\ name_tracker = NoCounts
    /\ report = <<>>
    /\ idx = 1
    /\ items = <<>>
    /\ toPatch = {}
    /\ start = [files |-> files, store |-> store]
    /\ after = <<>>
    /\ calls = <<>>
    /\ stdout = {}
    /\ stderr = {}
    /\ error = NoError
    /\ naming = [called |-> FALSE]

(***************************************************************************)
(* Actions                                                                 *)
(***************************************************************************)
\* config.extra_files as load_all_constants reads them: `if path.exists()`
ExtraFiles(c, disk) ==
    LET found == SelectSeq(c.extra_files, LAMBDA path : path \in DOMAIN disk)
    IN  [i \in 1..Len(found) |-> [path |-> found[i], lines |-> disk[found[i]]]]

\* _load_and_scan, first statement: load_all_constants
Load ==
    /\ pc = "load"
    /\ LET l == load_all_constants(store.exists, store.lines, ExtraFiles(cfg, files))
       IN  /\ existing_map' = l.existing_map
           /\ loaded_reserved' = l.reserved
    /\ toScan' = Paths
    /\ pc' = "scan"
    /\ UNCHANGED <<files, store, cfg, run, global_reserved, file_scope_names,
                   literal_map, name_tracker, report, idx, items, toPatch,
                   start, after, calls, console, naming>>

\* _load_and_scan, one iteration of the loop over the files os.walk yields
\* (in the order of the file system)
ScanFile(fp) ==
    /\ pc = "scan"
    /\ fp \in toScan
    /\ LET s == scan_file(fp, files[fp])
       IN  /\ file_scope_names' =
                 [x \in DOMAIN file_scope_names \cup {fp} |->
                     IF x = fp THEN s.names \cup loaded_reserved
                     ELSE file_scope_names[x]]
           /\ literal_map' = AddLiterals(literal_map, s.literals)
    /\ global_reserved' = global_reserved \cup loaded_reserved
    /\ toScan' = toScan \ {fp}
    /\ UNCHANGED <<files, store, cfg, pc, run, existing_map, loaded_reserved,
                   name_tracker, report, idx, items, toPatch, start, after, calls,
                   console, naming>>

\* analyze: sorted(self.literal_map.items(), ...)
Sort ==
    /\ pc = "scan"
    /\ toScan = {}
    /\ items' = SortedItems(literal_map)
    /\ pc' = "analyze"
    /\ UNCHANGED <<files, store, cfg, run, toScan, existing_map, loaded_reserved,
                   global_reserved, file_scope_names, literal_map, name_tracker,
                   report, idx, toPatch, start, after, calls, console, naming>>

\* the _resolve_collision call of a _create_new_constant that returned c
CallRecord(val, c) ==
    [value |-> val, base_name |-> c.base_name, reserved |-> c.reserved,
     name |-> c.final_name]

\* the _resolve_collision call that _process_item makes for this group, if any
CallOf(val, occurrences) ==
    IF val \in DOMAIN existing_map THEN <<>>
    ELSE <<CallRecord(val, _create_new_constant(val, occurrences, cfg,
                                                global_reserved, file_scope_names,
                                                name_tracker, idx))>>

\* analyze, the body of the loop for a group that meets the minimum count
Processed(r, val, occurrences) ==
    /\ report' = r.report
    /\ name_tracker' = r.tracker
    /\ idx' = r.idx
    /\ calls' = calls \o CallOf(val, occurrences)

\* analyze: one iteration of the loop over sorted_items
ProcessItem ==
    /\ pc = "analyze"
    /\ items # <<>>
    /\ IF BelowMinimum(Head(items).occs, cfg.min_count)
       THEN UNCHANGED <<report, name_tracker, idx, calls>>
       ELSE Processed(_process_item(Head(items).key, Head(items).occs, cfg,
                                    existing_map, global_reserved,
                                    file_scope_names, name_tracker, idx, report),
                      Head(items).key, Head(items).occs)
    /\ items' = Tail(items)
    /\ UNCHANGED <<files, store, cfg, pc, run, toScan, existing_map,
                   loaded_reserved, global_reserved, file_scope_names,
                   literal_map, toPatch, start, after, console, naming>>

\* process_report: `raise ConstantipyError(f"Malformed report: Missing key {e}")`
Malformed(key) ==
    /\ error' = [type |-> "ConstantipyError", detail |-> key]
    /\ pc' = "raised"
    /\ toPatch' = {}

\* process_report, the try block: _handle_global_constants, then
\* _parse_occurrences and files_to_process
HandleGlobals ==
    /\ pc = "analyze"
    /\ items = <<>>
    /\ IF MissingInGlobals(report) # "none"
       THEN /\ Malformed(MissingInGlobals(report))
            /\ UNCHANGED <<store, stdout, stderr>>
       ELSE /\ store' = IF cfg.apply
                        THEN _handle_global_constants(store.exists, store.lines, report)
                        ELSE store
            /\ stdout' = IF cfg.apply THEN stdout ELSE stdout \cup PreviewText(report)
            /\ stderr' = IF cfg.apply /\ NewGlobals(report) # <<>>
                         THEN stderr \cup {[msg |-> "Appended", path |-> ConstantsPath]}
                         ELSE stderr
            /\ IF MissingInParse(report) # "none"
               THEN Malformed(MissingInParse(report))
               ELSE /\ toPatch' = FilesToProcess(report)
                    /\ pc' = "patch"
                    /\ error' = error
    /\ UNCHANGED <<files, cfg, run, toScan, session, items, start, after, calls, naming>>

\* the body of the loop writing the file in preview mode as well
Rewrite_AlwaysWrites(fp, original, r) ==
    IF r.raised
    THEN /\ error' = [type |-> "IndexError", detail |-> fp]
         /\ pc' = "raised"
         /\ UNCHANGED <<files, stdout, stderr>>
    ELSE /\ files' = IF r.changed
                     THEN [files EXCEPT ![fp] = WriteLines(r.lines)]
                     ELSE files
         /\ stderr' = stderr
         /\ stdout' = IF r.changed /\ ~cfg.apply
                      THEN stdout \cup UnifiedDiff(PathParts(fp), original, r.lines)
                      ELSE stdout
         /\ UNCHANGED <<pc, error>>

\* process_report, the body of the loop once _process_single_file has returned r
Rewrite(fp, original, r) ==
    IF r.raised
    THEN /\ error' = [type |-> "IndexError", detail |-> fp]
         /\ pc' = "raised"
         /\ UNCHANGED <<files, stdout, stderr>>
    ELSE /\ files' = IF r.changed /\ cfg.apply
                     THEN [files EXCEPT ![fp] = WriteLines(r.lines)]
                     ELSE files
         /\ stderr' = IF r.changed /\ cfg.apply
                      THEN stderr \cup {[msg |-> "Refactored", path |-> fp]}
                      ELSE stderr
         /\ stdout' = IF r.changed /\ ~cfg.apply
                      THEN stdout \cup UnifiedDiff(PathParts(fp), original, r.lines)
                      ELSE stdout
         /\ UNCHANGED <<pc, error>>

\* process_report: one iteration of the loop over files_to_process (a set:
\* any order)
PatchFile(fp) ==
    /\ pc = "patch"
    /\ fp \in toPatch
    /\ Rewrite(fp, ReadLines(files[fp]),
               _process_single_file(files[fp], RepMap(report, fp), LocMap(report, fp)))
    /\ toPatch' = toPatch \ {fp}
    /\ UNCHANGED <<store, cfg, run, toScan, session, items, start, after, calls, naming>>

\* _process_single_file: open(path_obj, "r") raises OSError
ReadFails(fp) ==
    /\ pc = "patch"
    /\ fp \in toPatch
    /\ stderr' = stderr \cup {[msg |-> "Error reading", path |-> fp]}
    /\ toPatch' = toPatch \ {fp}
    /\ UNCHANGED <<files, store, cfg, pc, run, toScan, session, items, start, after,
                   calls, stdout, error, naming>>

\* process_report: open(fp, "w") raises OSError, which nothing catches
WriteFails(fp) ==
    /\ pc = "patch"
    /\ fp \in toPatch
    /\ cfg.apply
    /\ LET r == _process_single_file(files[fp], RepMap(report, fp), LocMap(report, fp))
       IN  r.changed /\ ~r.raised
    /\ error' = [type |-> "OSError", detail |-> fp]
    /\ pc' = "raised"
    /\ toPatch' = toPatch \ {fp}
    /\ UNCHANGED <<files, store, cfg, run, toScan, session, items, start, after,
                   calls, stdout, stderr, naming>>

\* cli.run returns; after an apply run the engine may be run again on the
\* directory it has rewritten (a preview run leaves nothing to run again on),
\* as a new process with a console of its own
EndRun ==
    /\ pc = "patch"
    /\ toPatch = {}
    /\ after' = Append(after, [files |-> files, store |-> store, report |-> report])
    /\ IF run < MaxRuns /\ cfg.apply
       THEN /\ run' = run + 1
            /\ pc' = "load"
            /\ NewSession
            /\ start' = [files |-> files, store |-> store]
            /\ calls' = <<>>
            /\ stdout' = {}
            /\ stderr' = {}
       ELSE /\ pc' = "done"
            /\ UNCHANGED <<run, start, session, calls, stdout, stderr>>
    /\ UNCHANGED <<files, store, cfg, toScan, items, toPatch, error, naming>>

\* cli.handle_refactor: json.load(sys.stdin) has returned the report
InitRefactor ==
    /\ \E input \in RefactorInputs :
          /\ files = [fp \in Paths \cup OutsidePaths |->
                         IF fp = "a.py" THEN input.file ELSE <<Use(magic)>>]
          /\ report = input.report
    /\ store \in RefactorStores
    /\ \E apply \in BOOLEAN :
          cfg = [min_count |-> 2, use_local_scope |-> TRUE,
                 naming_strategy |-> "derived", apply |-> apply,
                 extra_files |-> <<>>]
    /\ pc = "analyze"
    /\ run = 1
    /\ toScan = {}
    /\ existing_map = EmptyMap
    /\ loaded_reserved = {}
    /\ global_reserved = {}
    /\ file_scope_names = NoNames
    /\ literal_map = <<>>
    /\ name_tracker = NoCounts
    /\ idx = 1
    /\ items = <<>>
    /\ toPatch = {}
    /\ start = [files |-> files, store |-> store]
    /\ after = <<>>
    /\ calls = <<>>
    /\ stdout = {}
    /\ stderr = {}
    /\ error = NoError
    /\ naming = [called |-> FALSE]

\* cli.handle_refactor: process_report has returned
EndRefactor ==
    /\ pc = "patch"
    /\ toPatch = {}
    /\ pc' = "done"
    /\ after' = Append(after, [files |-> files, store |-> store, report |-> report])
    /\ UNCHANGED <<files, store, cfg, run, toScan, session, items, toPatch, start,
                   calls, console, naming>>

NextRefactor ==
    \/ HandleGlobals
    \/ \E fp \in Paths \cup OutsidePaths : PatchFile(fp)
    \/ \E fp \in Paths \cup OutsidePaths : ReadFails(fp)
    \/ \E fp \in Paths \cup OutsidePaths : WriteFails(fp)
    \/ EndRefactor

SpecRefactor == InitRefactor /\ [][NextRefactor]_vars

\* a caller is about to call generate_name
InitNames ==
    /\ \E val \in NameValues, strategy \in {"derived", "generic"}, index \in {0, 1, 12},
          type_hint \in {"none", "regex", "sql", "url", "path"} :
          naming = [called |-> FALSE, val |-> val, strategy |-> strategy,
                    idx |-> index, type_hint |-> type_hint, name |-> <<>>]
    /\ files = [fp \in Paths |-> <<>>]
    /\ store = [exists |-> FALSE, lines |-> <<>>]
    /\ cfg = [min_count |-> 2, use_local_scope |-> TRUE,
              naming_strategy |-> naming.strategy, apply |-> FALSE,
              extra_files |-> <<>>]
    /\ pc = "name"
    /\ run = 1
    /\ toScan = {}
    /\ existing_map = EmptyMap
    /\ loaded_reserved = {}
    /\ global_reserved = {}
    /\ file_scope_names = NoNames
    /\ literal_map = <<>>
    /\ name_tracker = NoCounts
    /\ report = <<>>
    /\ idx = naming.idx
    /\ items = <<>>
    /\ toPatch = {}
    /\ start = [files |-> files, store |-> store]
    /\ after = <<>>
    /\ calls = <<>>
    /\ stdout = {}
    /\ stderr = {}
    /\ error = NoError

\* generate_name is called and returns
GenerateName ==
    /\ pc = "name"
    /\ ~naming.called
    /\ naming' = [naming EXCEPT !.called = TRUE,
                                !.name = generate_name(naming.val, naming.strategy,
                                                       naming.idx, naming.type_hint)]
    /\ UNCHANGED <<files, store, cfg, pc, run, toScan, session, items, toPatch,
                   start, after, calls, console>>

SpecNames == InitNames /\ [][GenerateName]_vars

\* cli.main with --extra-constants: the engine is about to run
InitLoader ==
    /\ \E fa \in {<<Use(magic)>>, <<Use(magic), Use(Magic)>>},
          fb \in {<<>>, <<Use(magic)>>}, extra \in LoaderExtras :
          files = [fp \in Paths \cup (IF extra = <<>> THEN {} ELSE {ExtraPath}) |->
                      IF fp = "a.py" THEN fa ELSE IF fp = "b.py" THEN fb ELSE extra[1]]
    /\ store \in LoaderStores
    /\ \E local \in BOOLEAN, apply \in BOOLEAN, listed \in {<<>>, <<ExtraPath>>} :
          cfg = [min_count |-> 1, use_local_scope |-> local,
                 naming_strategy |-> "derived", apply |-> apply,
                 extra_files |-> listed]
    /\ pc = "load"
    /\ run = 1
    /\ toScan = {}
    /\ existing_map = EmptyMap
    /\ loaded_reserved = {}
    /\ global_reserved = {}
    /\ file_scope_names = NoNames
    /\ literal_map = <<>>
    /\ name_tracker = NoCounts
    /\ report = <<>>
    /\ idx = 1
    /\ items = <<>>
    /\ toPatch = {}
    /\ start = [files |-> files, store |-> store]
    /\ after = <<>>
    /\ calls = <<>>
    /\ stdout = {}
    /\ stderr = {}
    /\ error = NoError
    /\ naming = [called |-> FALSE]

Next ==
    \/ Load
    \/ \E fp \in Paths : ScanFile(fp)
    \/ Sort
    \/ ProcessItem
    \/ HandleGlobals
    \/ \E fp \in Paths : PatchFile(fp)
    \/ EndRun

Spec == Init /\ [][Next]_vars

SpecLoader == InitLoader /\ [][Next]_vars

(***************************************************************************)
(* Properties                                                              *)
(***************************************************************************)
Analysed == pc \in {"patch", "done"}

\* the file has been handled by process_report in the current run
Patched(fp) == pc = "patch" /\ fp \in FilesToProcess(report) /\ fp \notin toPatch

\* the occurrences the scanner finds for a value in the files on disk
ScannedOccurrences(val) ==
    UNION {{scan_file(fp, files[fp]).literals[k] :
                k \in {k \in 1..Len(scan_file(fp, files[fp]).literals) :
                          scan_file(fp, files[fp]).literals[k].value = val}} :
           fp \in Paths}

OccurrenceCount(val) ==
    IF \E k \in 1..Len(literal_map) : literal_map[k].key = val
    THEN Len(literal_map[CHOOSE k \in 1..Len(literal_map) : literal_map[k].key = val].occs)
    ELSE 0

\* the line is NAME = NAME
SelfAssign(line) ==
    LET core == StripLine(line)
    IN  Len(core) = 3 /\ core[1].k = "name" /\ core[2] = EQ /\ core[3] = core[1]

\* the line is an unindented NAME = <literal of value>
DefinesLocally(line, name, value) ==
    ~Indented(line) /\ StripLine(line) = <<Nm(name), EQ, Lit(value)>>

\* some line of the file is an import from the shared constants module that
\* binds the name
HasImportOf(lines, name) ==
    \E i \in 1..Len(lines) :
        /\ Kind(lines[i]) = "import"
        /\ StripLine(lines[i])[2] = Nm(ModuleName)
        /\ name \in ImportedNames(lines[i])

HasLiteral(lines, value) ==
    \E i \in 1..Len(lines) : \E j \in 1..Len(lines[i]) : lines[i][j] = Lit(value)

\* C1: a second apply run over the directory the first run left behind
\* changes no source file and not the shared constants store.
C1_Idempotent ==
    (cfg.apply /\ Len(after) >= 2) =>
        /\ after[2].files = after[1].files
        /\ after[2].store = after[1].store

\* C2: a run never writes a line NAME = NAME that the file did not have
\* when the run started.
C2_NoSelfReference ==
    \A fp \in Paths : \A i \in 1..Len(files[fp]) :
        SelfAssign(files[fp][i]) =>
            \E j \in 1..Len(start.files[fp]) : start.files[fp][j] = files[fp][i]

C4_FreshName ==
    \A j \in 1..Len(calls) :
        /\ calls[j].name \notin calls[j].reserved
        /\ \A i \in 1..(j - 1) : calls[i].name # calls[j].name

\* C5: every value in the report was found at least min_count times.
C5_Threshold ==
    \A i \in 1..Len(report) : OccurrenceCount(report[i].value) >= cfg.min_count

\* a value of the existing-constant index was found fewer than min_count
\* times and the analysis, which reported another value, is over
C5_Witness ==
    /\ Analysed
    /\ report # <<>>
    /\ \E k \in 1..Len(literal_map) :
          /\ Len(literal_map[k].occs) < cfg.min_count
          /\ literal_map[k].key \in DOMAIN existing_map

\* C6 as claimed: an entry with occurrences in two or more files is global;
\* an entry with all occurrences in one file is, with local scope enabled,
\* local to that file.
C6_ScopeAsClaimed ==
    \A i \in 1..Len(report) :
        LET files_of == UniqueFiles(report[i].occurrences)
        IN  /\ Cardinality(files_of) >= 2 => report[i].scope = "global"
            /\ (Cardinality(files_of) = 1 /\ cfg.use_local_scope) =>
                  /\ report[i].scope = "local"
                  /\ report[i].source_path \in files_of

\* C6: an entry with occurrences in two or more files is global; an entry
\* for a value that is not in the existing-constant index, with all
\* occurrences in one file, is, with local scope enabled, local to that file.
C6_ScopePromotion ==
    \A i \in 1..Len(report) :
        LET files_of == UniqueFiles(report[i].occurrences)
        IN  /\ Cardinality(files_of) >= 2 => report[i].scope = "global"
            /\ (/\ Cardinality(files_of) = 1
                /\ cfg.use_local_scope
                /\ report[i].value \notin DOMAIN existing_map) =>
                  /\ report[i].scope = "local"
                  /\ report[i].source_path \in files_of

\* one report holds a new value of two files and a new value of one file
C6_Witness ==
    /\ Analysed
    /\ cfg.use_local_scope
    /\ \E i, j \in 1..Len(report) :
          /\ report[i].is_new /\ report[j].is_new
          /\ Cardinality(UniqueFiles(report[i].occurrences)) = 2
          /\ Cardinality(UniqueFiles(report[j].occurrences)) = 1

\* C7: when _process_item handles a qualifying value that is in the
\* existing-constant index, the report then holds an entry with the existing
\* name and scope, is_new = FALSE, and every occurrence of the value that
\* the scan of the files found.
C7_Reuse ==
    [][(/\ pc = "analyze"
        /\ items # <<>>
        /\ ~BelowMinimum(Head(items).occs, cfg.min_count)
        /\ Head(items).key \in DOMAIN existing_map)
       => \E i \in 1..Len(report') :
             /\ report'[i].name = existing_map[Head(items).key].name
             /\ report'[i].scope = existing_map[Head(items).key].scope
             /\ report'[i].value = Head(items).key
             /\ report'[i].is_new = FALSE
             /\ {report'[i].occurrences[k] : k \in 1..Len(report'[i].occurrences)}
                  = ScannedOccurrences(Head(items).key)]_vars

\* an existing constant is reused for occurrences in a file that did not
\* import it
C7_Witness ==
    /\ Analysed
    /\ \E i \in 1..Len(report) :
          /\ report[i].value \in DOMAIN existing_map
          /\ ~report[i].is_new
          /\ Len(report[i].occurrences) >= 2
          /\ \E fp \in UniqueFiles(report[i].occurrences) :
                ~HasImportOf(start.files[fp], report[i].name)

\* C8: a top-level NAME = <literal> whose NAME is the candidate name of the
\* literal's value is recognised: the value's entry is named NAME and is not
\* new, and the patched file still holds the definition as written.
C8_DefinitionRecognised ==
    \A fp \in Paths : \A i \in 1..Len(start.files[fp]) :
        LET line == start.files[fp][i]
            core == StripLine(line)
        IN  (/\ Analysed
             /\ cfg.use_local_scope
             /\ cfg.naming_strategy = "derived"
             /\ Kind(line) = "assign" /\ ~Indented(line)
             /\ Len(core) = 3 /\ core[3].k = "lit"
             /\ core[1].n = _name_from_str(core[3].v.val, 1, "none")
             /\ core[3].v \notin DOMAIN existing_map
             /\ UniqueFiles(literal_map[CHOOSE k \in 1..Len(literal_map) :
                                literal_map[k].key = core[3].v].occs) = {fp}
             /\ OccurrenceCount(core[3].v) >= cfg.min_count)
            => /\ \E e \in 1..Len(report) :
                     /\ report[e].value = core[3].v
                     /\ report[e].name = core[1].n
                     /\ ~report[e].is_new
               /\ (cfg.apply /\ (pc = "done" \/ fp \notin toPatch)) =>
                     \E j \in 1..Len(files[fp]) : files[fp][j] = line

\* C9: once process_report has handled a file in apply mode, every global
\* name it substituted into the file is bound there by an import from the
\* shared constants module.
C9_ImportCoverage ==
    \A fp \in Paths :
        (cfg.apply /\ Patched(fp)) =>
            \A k \in 1..Len(RepMap(report, fp)) :
                RepMap(report, fp)[k].scope = "global" =>
                    HasImportOf(files[fp], RepMap(report, fp)[k].name)

\* C10: after an apply run that promotes to global a constant file A
\* defined locally, because file B holds the same value, A imports the name
\* and has lost its definition, B imports the name and has lost the literal,
\* and the store defines the name; no patched file both imports a global
\* name of the report and defines it at top level.
C10_PromotionCleanup ==
    (cfg.apply /\ pc = "patch" /\ toPatch = {}) =>
        \A e \in 1..Len(report) :
            (report[e].scope = "global" /\ report[e].is_new) =>
                /\ \A A \in Paths, B \in Paths :
                      (/\ A # B
                       /\ {A, B} \subseteq UniqueFiles(report[e].occurrences)
                       /\ \E i \in 1..Len(start.files[A]) :
                             DefinesLocally(start.files[A][i], report[e].name,
                                            report[e].value))
                      => /\ HasImportOf(files[A], report[e].name)
                         /\ \A i \in 1..Len(files[A]) :
                               ~IsLocalDefOf(files[A][i], {report[e].name})
                         /\ HasImportOf(files[B], report[e].name)
                         /\ ~HasLiteral(files[B], report[e].value)
                         /\ \E i \in 1..Len(store.lines) :
                               DefinesLocally(store.lines[i], report[e].name,
                                              report[e].value)
                /\ \A fp \in UniqueFiles(report[e].occurrences) :
                      ~(/\ HasImportOf(files[fp], report[e].name)
                        /\ \E i \in 1..Len(files[fp]) :
                              /\ ~Indented(files[fp][i])
                              /\ IsLocalDefOf(files[fp][i], {report[e].name}))

(***************************************************************************)
(* Properties of the refactor command                                      *)
(***************************************************************************)
\* process_report wrote the file: eprint(f"Refactored {fp}")
Rewritten(fp) == [msg |-> "Refactored", path |-> fp] \in stderr

\* the report is one complete entry of a reused local constant with one
\* occurrence: patching its file applies that replacement and nothing else
OnlyReplaces ==
    /\ Len(report) = 1
    /\ DOMAIN report[1] = DOMAIN Entry(MAGIC, magic, FALSE, "local", <<>>)
    /\ ~report[1].is_new
    /\ report[1].scope = "local"
    /\ Len(report[1].occurrences) = 1

\* the span lies in the text of the buffer: its lines exist, its columns are
\* before the newline of their line, its end is not before its start
SpanInText(lines, occ) ==
    /\ occ.end_lineno <= Len(lines)
    /\ occ.col_offset < Len(lines[occ.lineno])
    /\ occ.end_col_offset < Len(lines[occ.end_lineno])
    /\ occ.lineno = occ.end_lineno => occ.col_offset <= occ.end_col_offset

\* the buffer with the lines of the span collapsed to one line: the prefix of
\* the first, the name, the suffix of the last
Collapsed(lines, occ, name) ==
    SubSeq(lines, 1, occ.lineno - 1)
    \o <<Take(lines[occ.lineno], occ.col_offset) \o <<Nm(name)>>
         \o Drop(lines[occ.end_lineno], occ.end_col_offset)>>
    \o SubSeq(lines, occ.end_lineno + 1, Len(lines))

\* C11: a replacement whose span lies in the text leaves in the file the
\* buffer with the lines of the span collapsed to one line (prefix of the
\* first line, name, suffix of the last line), so that the number of lines
\* is unchanged for a single-line span and reduced by end line - start line
\* for a multi-line span.
C11_SpanIntegrity ==
    \A fp \in DOMAIN files :
        (/\ OnlyReplaces
         /\ Rewritten(fp)
         /\ SpanInText(ReadLines(start.files[fp]), report[1].occurrences[1]))
        => /\ files[fp] = Collapsed(ReadLines(start.files[fp]),
                                    report[1].occurrences[1], report[1].name)
           /\ Len(files[fp]) = Len(ReadLines(start.files[fp]))
                                - (report[1].occurrences[1].end_lineno
                                   - report[1].occurrences[1].lineno)

\* C11 for the spans that lie in one line
C11_SingleLine ==
    \A fp \in DOMAIN files :
        (/\ OnlyReplaces
         /\ Rewritten(fp)
         /\ report[1].occurrences[1].lineno = report[1].occurrences[1].end_lineno
         /\ SpanInText(ReadLines(start.files[fp]), report[1].occurrences[1]))
        => files[fp] = Collapsed(ReadLines(start.files[fp]),
                                 report[1].occurrences[1], report[1].name)

\* every entry of the report carries every key
WellFormed(rep) ==
    \A i \in 1..Len(rep) : DOMAIN rep[i] = DOMAIN Entry(MAGIC, magic, FALSE, "local", <<>>)

\* every replacement of the file lies in the text of the file as it was read
SpansInText(fp) ==
    \A i \in 1..Len(report) : \A k \in 1..Len(report[i].occurrences) :
        report[i].occurrences[k].filepath = fp
        => SpanInText(ReadLines(start.files[fp]), report[i].occurrences[k])

\* line i of the file lies in a replacement span
InSpan(fp, i) ==
    \E r \in 1..Len(RepMap(report, fp)) :
        /\ RepMap(report, fp)[r].start_line <= i
        /\ i <= RepMap(report, fp)[r].end_line

\* the global names the replacements of the file refer to
GlobalNamesIn(fp) ==
    {RepMap(report, fp)[r].name :
        r \in {r \in 1..Len(RepMap(report, fp)) : RepMap(report, fp)[r].scope = "global"}}

\* a single-line top-level assignment to one of the names
TopLevelAssignTo(line, names) ==
    /\ ~Indented(line)
    /\ Kind(line) = "assign"
    /\ line[1].n \in names

\* the lines of the file that no edit of the engine concerns, in order
RECURSIVE Unrelated(_, _, _)
Unrelated(fp, lines, i) ==
    IF i > Len(lines) THEN <<>>
    ELSE (IF InSpan(fp, i) \/ TopLevelAssignTo(lines[i], GlobalNamesIn(fp))
          THEN <<>> ELSE <<lines[i]>>)
         \o Unrelated(fp, lines, i + 1)

\* a is b with some elements left out
RECURSIVE IsSubsequence(_, _)
IsSubsequence(a, b) ==
    IF a = <<>> THEN TRUE
    ELSE IF b = <<>> THEN FALSE
    ELSE IF Head(a) = Head(b) THEN IsSubsequence(Tail(a), Tail(b))
    ELSE IsSubsequence(a, Tail(b))

\* C12: the lines of the original file that lie in no replacement span and
\* are not top-level assignments to an imported name (indented assignments
\* among them) are in the rewritten file, unchanged and in the same order.
C12_NoCorruption ==
    \A fp \in DOMAIN files :
        (WellFormed(report) /\ Rewritten(fp) /\ SpansInText(fp))
        => IsSubsequence(Unrelated(fp, ReadLines(start.files[fp]), 1), files[fp])

\* C12 for the files that hold no indented assignment to an imported name
C12_TopLevelOnly ==
    \A fp \in DOMAIN files :
        (/\ WellFormed(report) /\ Rewritten(fp) /\ SpansInText(fp)
         /\ \A i \in 1..Len(start.files[fp]) :
               Indented(start.files[fp][i])
               => ~IsLocalDefOf(start.files[fp][i], GlobalNamesIn(fp)))
        => IsSubsequence(Unrelated(fp, ReadLines(start.files[fp]), 1), files[fp])

\* the store as it was, its last line completed by a newline if it had none
Completed(lines) ==
    IF lines # <<>> /\ ~EndsNL(lines[Len(lines)])
    THEN [lines EXCEPT ![Len(lines)] = Append(@, NL)]
    ELSE lines

\* the entries of the report that are new and global
NewGlobalEntries == SelectSeq(report, LAMBDA e : e.is_new /\ e.scope = "global")

\* C14: once process_report has handled the globals of a complete report in
\* apply mode, the store is the store as it was, completed by a newline if
\* its last byte was none, followed by the header if it was absent or empty,
\* followed by one line NAME = repr(value) for every new global entry and
\* nothing else; it is as it was when the report has no new global entry.
C14_StoreAppend ==
    (cfg.apply /\ pc # "analyze" /\ WellFormed(report)) =>
        IF NewGlobalEntries = <<>> THEN store = start.store
        ELSE /\ store.exists
             /\ store.lines =
                   Completed(start.store.lines)
                   \o (IF ~start.store.exists \/ start.store.lines = <<>>
                       THEN <<HeaderLine, <<NL>>>> ELSE <<>>)
                   \o [i \in 1..Len(NewGlobalEntries) |->
                          <<Nm(NewGlobalEntries[i].name), EQ,
                            Lit(NewGlobalEntries[i].value), NL>>]

\* a new global entry has been appended to a store that did not end in a
\* newline
C14_Witness ==
    /\ cfg.apply
    /\ pc = "patch"
    /\ WellFormed(report)
    /\ NewGlobalEntries # <<>>
    /\ start.store.lines # <<>>
    /\ ~EndsNL(start.store.lines[Len(start.store.lines)])
    /\ Len(store.lines) = Len(start.store.lines) + Len(NewGlobalEntries)

\* the fields every entry of a report is required to carry
RequiredKeys == {"value", "is_new", "scope", "occurrences"}

\* the required keys that some entry of the report lacks
MissingFrom(rep) == UNION {RequiredKeys \ DOMAIN rep[i] : i \in 1..Len(rep)}

\* C15: once the try block of process_report is over, a report of which some
\* entry lacks a required key has raised ConstantipyError naming a key that
\* is missing.
C15_MalformedReport ==
    (pc # "analyze" /\ MissingFrom(report) # {}) =>
        /\ error.type = "ConstantipyError"
        /\ error.detail \in MissingFrom(report)

\* C15 for the keys the code reads with a subscript: occurrences in every
\* entry, value in a new entry
C15_SubscriptedKeys ==
    (/\ pc # "analyze"
     /\ \E i \in 1..Len(report) :
           \/ "occurrences" \notin DOMAIN report[i]
           \/ "value" \notin DOMAIN report[i] /\ IsNewEntry(report[i])
                /\ "scope" \in DOMAIN report[i]) =>
        /\ error.type = "ConstantipyError"
        /\ error.detail \in MissingFrom(report)

\* _process_single_file reported that the file could not be read
ErrorReading(fp) == [msg |-> "Error reading", path |-> fp] \in stderr

\* C16: a failure to read or to write a file is not an exception that leaves
\* process_report: the run goes on with the files that remain; a file that
\* could not be read is left as it was.
C16_PerFileFailure ==
    /\ error.type # "OSError"
    /\ \A fp \in DOMAIN files : ErrorReading(fp) => files[fp] = start.files[fp]

\* C16 for the failures to read: the file is reported and left as it was, and
\* the exception that ends the run, if any, is not about that file
C16_ReadFailure ==
    \A fp \in DOMAIN files :
        ErrorReading(fp) => /\ files[fp] = start.files[fp]
                            /\ fp \notin toPatch
                            /\ error.detail # fp

\* what _apply_changes returned for the file and what process_report did with
\* it: changed is reported exactly when one of the four edits occurred, and
\* whenever the buffer differs from the buffer read; without it the file
\* and the standard output are left as they were
ChangeReported(fp, r) ==
    /\ r.changed <=> (r.replaced \/ r.imported \/ r.removed_locals
                      \/ LocMap(report, fp) # <<>>)
    /\ r.lines # ReadLines(files[fp]) => r.changed
    /\ ~r.changed => /\ files'[fp] = files[fp]
                     /\ stdout' = stdout
                     /\ stderr' = stderr

\* C17: in every iteration of the loop of process_report that ends without
\* an exception, _apply_changes reports a change if and only if a replacement
\* was applied, an import inserted, a redundant definition removed or a local
\* definition inserted; when it reports none, the file is not written and
\* no diff is printed.
C17_NoChangeNoRewrite ==
    [][\A fp \in DOMAIN files :
          (PatchFile(fp) /\ pc' = "patch") =>
              ChangeReported(fp, _process_single_file(files[fp], RepMap(report, fp),
                                                      LocMap(report, fp)))]_vars

\* a file of the report has been processed in apply mode and not written
C17_Witness ==
    /\ cfg.apply
    /\ pc = "done"
    /\ WellFormed(report)
    /\ "a.py" \in FilesToProcess(report)
    /\ ~Rewritten("a.py")
    /\ ~ErrorReading("a.py")
    /\ files = start.files

\* the file lies under the project root
UnderRoot(fp) == StartsWith(PathParts(fp), Root)

\* the output is the diff of a file, with the headers a/<path> and b/<path>
IsDiffOf(o, path) ==
    o.kind = "diff" /\ o.fromfile = <<"a">> \o path /\ o.tofile = <<"b">> \o path

\* C18: in a preview run no source file and not the shared store is changed,
\* whatever the report; nothing is reported as written; the output is the
\* preview of the store and diffs, the headers of a diff being a/<path> and
\* b/<path> with the path of the file relative to the project root, or the
\* name of the file when the file is not under the project root.
C18_PreviewWritesNothing ==
    ~cfg.apply =>
        /\ files = start.files
        /\ store = start.store
        /\ \A m \in stderr : m.msg = "Error reading"
        /\ \A o \in stdout :
              \/ o.kind = "preview"
              \/ \E fp \in DOMAIN files :
                    IsDiffOf(o, IF UnderRoot(fp)
                                THEN SubSeq(PathParts(fp), Len(Root) + 1, Len(PathParts(fp)))
                                ELSE <<fp>>)

\* C18 as claimed: every diff is headed by a path relative to the project
\* root
C18_HeadersRelativeToRoot ==
    ~cfg.apply =>
        \A o \in stdout :
            \/ o.kind = "preview"
            \/ \E fp \in DOMAIN files :
                  /\ UnderRoot(fp)
                  /\ IsDiffOf(o, SubSeq(PathParts(fp), Len(Root) + 1, Len(PathParts(fp))))

\* a preview run has printed the preview of the store, the diff of a file
\* under the root and the diff of a file outside it
C18_Witness ==
    /\ ~cfg.apply
    /\ pc = "done"
    /\ \E o \in stdout : o.kind = "preview"
    /\ \E o \in stdout : IsDiffOf(o, <<"a.py">>)
    /\ \E o \in stdout : IsDiffOf(o, <<"out.py">>)

(***************************************************************************)
(* Properties of the naming heuristics                                     *)
(***************************************************************************)
\* str.isidentifier for ASCII text
IsIdentifier(name) ==
    /\ name # <<>>
    /\ name[1] \in LowerChars \cup UpperChars \cup {"_"}
    /\ \A i \in 1..Len(name) : IsAlnum(name[i]) \/ name[i] = "_"

\* the number of letters and digits of a text
AlnumCount(text) == Cardinality({i \in 1..Len(text) : IsAlnum(text[i])})

\* C19: the name generate_name returns is a non-empty identifier of at most
\* 50 characters, and it ends with the marker _ETC when it was cut, as it
\* was for a text or a byte string of more than 50 letters or digits under
\* the derived strategy.
C19_NameShape ==
    naming.called =>
        /\ IsIdentifier(naming.name)
        /\ Len(naming.name) <= 50
        /\ (/\ naming.strategy = "derived"
            /\ naming.val.type \in {"str", "bytes"}
            /\ AlnumCount(naming.val.val) = Len(naming.val.val)
            /\ Len(naming.val.val) > 50)
           => EndsWith(naming.name, <<"_", "E", "T", "C">>)

\* C19 for the text values
C19_TextNameShape ==
    (naming.called /\ naming.val.type = "str") =>
        /\ IsIdentifier(naming.name)
        /\ Len(naming.name) <= 50
        /\ (naming.strategy = "derived" /\ Len(naming.val.val) > 50)
           => EndsWith(naming.name, <<"_", "E", "T", "C">>)

\* the name is STR_EMPTY or STR_CONST_<digits>
FallbackFamily(name) ==
    \/ name = STR_EMPTY
    \/ /\ StartsWith(name, STR_CONST_)
       /\ Len(name) > Len(STR_CONST_)
       /\ \A i \in (Len(STR_CONST_) + 1)..Len(name) : name[i] \in DigitChars

\* a value the fallback names are meant for: the empty text, or a text with
\* fewer than three letters and digits, from which no name of three
\* characters can be derived
Degenerate(val) == val.type = "str" /\ AlnumCount(val.val) < 3

\* C20: under the derived strategy a value that is not degenerate does not
\* get a name of the fallback family.
C20_FallbackReserved ==
    (naming.called /\ naming.strategy = "derived" /\ ~Degenerate(naming.val))
    => ~FallbackFamily(naming.name)

(***************************************************************************)
(* Properties of the analysis, continued                                   *)
(***************************************************************************)
\* the files in which the entry's name will be defined or imported
TargetFiles(entry) ==
    IF entry.scope = "local" THEN {entry.source_path} \cap Paths
    ELSE UniqueFiles(entry.occurrences)

\* the names the file binds at top level, apart from the definition of the
\* value itself under that name and from the imports
OtherBindings(lines, name, value) ==
    _collect_names(SelectSeq(lines, LAMBDA l : /\ ~DefinesLocally(l, name, value)
                                              /\ Kind(l) # "import"))

\* C13: the name of a new entry is not bound in the shared store and is not
\* bound at top level, to anything but the value itself, in a file where the
\* name will be defined or imported, whatever the scope of the entry.
C13_NoShadow ==
    Analysed =>
        \A i \in 1..Len(report) :
            report[i].is_new =>
                /\ report[i].name \notin loaded_reserved
                /\ \A fp \in TargetFiles(report[i]) :
                      report[i].name
                          \notin OtherBindings(start.files[fp], report[i].name, report[i].value)

\* C13 for the entries of local scope
C13_LocalNoShadow ==
    Analysed =>
        \A i \in 1..Len(report) :
            (report[i].is_new /\ report[i].scope = "local") =>
                /\ report[i].name \notin loaded_reserved
                /\ \A fp \in TargetFiles(report[i]) :
                      report[i].name \notin _collect_names(start.files[fp])
(***************************************************************************)
(* Properties of the loader                                                *)
(***************************************************************************)
\* the lines of a constants file as the current run found it
SourceLines(path) ==
    IF path = ConstantsPath THEN start.store.lines ELSE start.files[path]

\* C21: every entry of the value-to-name index comes from a top-level
\* binding NAME = <literal> of the file the entry names as its source.
C21_TopLevelOnly ==
    pc # "load" =>
        \A val \in DOMAIN existing_map :
            \E i \in 1..Len(SourceLines(existing_map[val].source)) :
                DefinesLocally(SourceLines(existing_map[val].source)[i],
                               existing_map[val].name, val)

\* every entry of the index comes from a line NAME = <literal>, at whatever
\* depth: destructuring assignments and computed right-hand sides add none
C21_LiteralBindingsOnly ==
    pc # "load" =>
        \A val \in DOMAIN existing_map :
            \E i \in 1..Len(SourceLines(existing_map[val].source)) :
                StripLine(SourceLines(existing_map[val].source)[i])
                    = <<Nm(existing_map[val].name), EQ, Lit(val)>>

(***************************************************************************)
(* Properties of the analysis: order                                       *)
(***************************************************************************)
\* the group of a value in literal_map, whose order is the order of discovery
GroupOf(val) == CHOOSE k \in 1..Len(literal_map) : literal_map[k].key = val

\* group a is processed before group b: more occurrences, or as many and
\* discovered earlier
Before(a, b) ==
    \/ Len(literal_map[a].occs) > Len(literal_map[b].occs)
    \/ /\ Len(literal_map[a].occs) = Len(literal_map[b].occs)
       /\ a < b

\* C22: the groups still to be processed are in descending order of
\* occurrence count, equal counts in discovery order; the constants created
\* so far were created in that order and before every group still to be
\* processed; under the generic strategy the k-th constant created has the
\* candidate name CONST_k.
C22_ProcessingOrder ==
    pc \in {"analyze", "patch"} =>
        /\ \A i, j \in 1..Len(items) :
              i < j => Before(GroupOf(items[i].key), GroupOf(items[j].key))
        /\ \A i, j \in 1..Len(calls) :
              i < j => Before(GroupOf(calls[i].value), GroupOf(calls[j].value))
        /\ \A i \in 1..Len(calls), j \in 1..Len(items) :
              Before(GroupOf(calls[i].value), GroupOf(items[j].key))
        /\ cfg.naming_strategy = "generic" =>
              \A k \in 1..Len(calls) : calls[k].base_name = CONST_ \o Digits(k)

\* three constants were created under the generic strategy: one before a
\* group discovered earlier, and two of equal count
C22_Witness ==
    /\ pc = "patch"
    /\ cfg.naming_strategy = "generic"
    /\ Len(calls) = 3
    /\ \E i, j \in 1..Len(calls) :
          i < j /\ GroupOf(calls[i].value) > GroupOf(calls[j].value)
    /\ \E i, j \in 1..Len(calls) :
          /\ i < j
          /\ Len(literal_map[GroupOf(calls[i].value)].occs)
               = Len(literal_map[GroupOf(calls[j].value)].occs)

(***************************************************************************)
(* Properties of the patch engine: several edits in one file               *)
(***************************************************************************)
\* every entry of the report is complete and reuses a local constant:
\* patching a file applies its replacements and nothing else
ReplacesOnly ==
    /\ report # <<>>
    /\ WellFormed(report)
    /\ \A e \in 1..Len(report) : ~report[e].is_new /\ report[e].scope = "local"

\* the replacements of the file, whatever their order in the report
SpanSet(fp) == {RepMap(report, fp)[k] : k \in 1..Len(RepMap(report, fp))}

\* position (l1, c1) is not after position (l2, c2)
NotAfter(l1, c1, l2, c2) == l1 < l2 \/ (l1 = l2 /\ c1 <= c2)

\* the spans lie in the text, none is empty and no two overlap
Disjoint(lines, S) ==
    /\ \A r \in S :
          /\ r.end_line <= Len(lines)
          /\ r.start_col < Len(lines[r.start_line])
          /\ r.end_col < Len(lines[r.end_line])
          /\ NotAfter(r.start_line, r.start_col, r.end_line, r.end_col)
          /\ <<r.start_line, r.start_col>> # <<r.end_line, r.end_col>>
    /\ \A r, q \in S :
          r # q => \/ NotAfter(r.end_line, r.end_col, q.start_line, q.start_col)
                   \/ NotAfter(q.end_line, q.end_col, r.start_line, r.start_col)

\* the text from token j of line i on, every span of S substituted at its
\* original coordinates: the first token of a span gives the name (followed
\* by a line break when brk holds and the span is of several lines), the
\* other tokens of a span give nothing
RECURSIVE SubstFrom(_, _, _, _, _)
SubstFrom(S, lines, i, j, brk) ==
    IF i > Len(lines) THEN <<>>
    ELSE IF j > Len(lines[i]) THEN SubstFrom(S, lines, i + 1, 1, brk)
    ELSE LET starting == {r \in S : r.start_line = i /\ r.start_col = j - 1}
             covering == {r \in S : /\ NotAfter(r.start_line, r.start_col, i, j - 1)
                                    /\ NotAfter(i, j, r.end_line, r.end_col)}
             r == CHOOSE r \in starting : TRUE
         IN  (IF starting # {}
              THEN <<Nm(r.name)>>
                   \o (IF brk /\ r.start_line < r.end_line THEN <<NL>> ELSE <<>>)
              ELSE IF covering # {} THEN <<>>
              ELSE <<lines[i][j]>>)
             \o SubstFrom(S, lines, i, j + 1, brk)

Substituted(lines, S, brk) == SplitLines(SubstFrom(S, lines, 1, 1, brk), <<>>)

\* C23: when the replacements of a file are spans of its text that do not
\* overlap, the file written is the original text with every span replaced
\* by its name, whatever the order of the replacements in the report.
C23_OrderIndependence ==
    \A fp \in DOMAIN files :
        (/\ ReplacesOnly
         /\ Rewritten(fp)
         /\ Disjoint(ReadLines(start.files[fp]), SpanSet(fp)))
        => files[fp] = Substituted(ReadLines(start.files[fp]), SpanSet(fp), FALSE)

\* C23 for spans that lie in one line each
C23_SingleLineSpans ==
    \A fp \in DOMAIN files :
        (/\ ReplacesOnly
         /\ Rewritten(fp)
         /\ Disjoint(ReadLines(start.files[fp]), SpanSet(fp))
         /\ \A r \in SpanSet(fp) : r.start_line = r.end_line)
        => files[fp] = Substituted(ReadLines(start.files[fp]), SpanSet(fp), FALSE)

\* the order of the replacements in the report has no effect: the file
\* written is the original text with every span replaced at its original
\* coordinates as a lone replacement replaces it, the name of a span of
\* several lines followed by a line break
C23_AnyOrder ==
    \A fp \in DOMAIN files :
        (/\ ReplacesOnly
         /\ Rewritten(fp)
         /\ Disjoint(ReadLines(start.files[fp]), SpanSet(fp)))
        => files[fp] = Substituted(ReadLines(start.files[fp]), SpanSet(fp), TRUE)

\* three replacements of one file were applied, two of them in one line and
\* one of several lines, given in the report in ascending order of position
C23_AnyOrderWitness ==
    \E fp \in DOMAIN files :
        /\ ReplacesOnly
        /\ Rewritten(fp)
        /\ Disjoint(ReadLines(start.files[fp]), SpanSet(fp))
        /\ Len(RepMap(report, fp)) = 3
        /\ RepLess(RepMap(report, fp)[1], RepMap(report, fp)[2])
        /\ RepLess(RepMap(report, fp)[2], RepMap(report, fp)[3])
        /\ \E r \in SpanSet(fp) : r.start_line < r.end_line
        /\ \E r, q \in SpanSet(fp) : r # q /\ r.start_line = q.end_line

(***************************************************************************)
(* Properties of the patch engine: imports and cleanup                     *)
(***************************************************************************)
\* line i of the written file is an import statement that the file did not
\* hold when the run started
NewImport(fp, i) ==
    /\ Kind(files[fp][i]) = "import"
    /\ \A j \in 1..Len(start.files[fp]) : start.files[fp][j] # files[fp][i]

\* the global names of the replacements of the file that were applied to
\* the text as it was read
AppliedGlobals(fp) ==
    {r.name : r \in {r \in SpanSet(fp) :
                        /\ r.scope = "global"
                        /\ ApplyOne(ReadLines(start.files[fp]), r).modified}}

\* C24: the import statement inserted into a file with one replacement
\* names exactly the global names of the replacements that were applied.
C24_ImportsFollowSurvivors ==
    \A fp \in DOMAIN files :
        (/\ cfg.apply
         /\ WellFormed(report)
         /\ Rewritten(fp)
         /\ Len(RepMap(report, fp)) = 1)
        => \A i \in 1..Len(files[fp]) :
              NewImport(fp, i) => ImportedNames(files[fp][i]) = AppliedGlobals(fp)

\* the import statement inserted into a file names exactly the global names
\* of the replacements the report gives for the file, applied or skipped
C24_ImportsFollowReport ==
    \A fp \in DOMAIN files :
        (cfg.apply /\ WellFormed(report) /\ Rewritten(fp))
        => \A i \in 1..Len(files[fp]) :
              NewImport(fp, i) => ImportedNames(files[fp][i]) = GlobalNamesIn(fp)

\* C25: when a file is rewritten without an import statement being
\* inserted, the definitions of global names that it held outside the
\* replaced spans are still there.
C25_CleanupOnNewImportOnly ==
    \A fp \in DOMAIN files :
        (/\ cfg.apply
         /\ WellFormed(report)
         /\ Rewritten(fp)
         /\ \A i \in 1..Len(files[fp]) : ~NewImport(fp, i))
        => \A j \in 1..Len(start.files[fp]) :
              (/\ IsLocalDefOf(start.files[fp][j], GlobalNamesIn(fp))
               /\ ~InSpan(fp, j))
              => \E i \in 1..Len(files[fp]) : files[fp][i] = ReadLines(start.files[fp])[j]

\* a definition line outside the replaced spans is deleted only if it binds
\* a global name of a replacement of the file
C25_CleanupOfGlobalNamesOnly ==
    \A fp \in DOMAIN files :
        (cfg.apply /\ WellFormed(report) /\ Rewritten(fp) /\ SpansInText(fp))
        => \A j \in 1..Len(start.files[fp]) :
              (/\ Kind(start.files[fp][j]) = "assign"
               /\ ~InSpan(fp, j)
               /\ ~IsLocalDefOf(start.files[fp][j], GlobalNamesIn(fp)))
              => \E i \in 1..Len(files[fp]) : files[fp][i] = ReadLines(start.files[fp])[j]

(***************************************************************************)
(* Properties of the patch engine: where the new lines go                  *)
(***************************************************************************)
\* line i of the written file was inserted: the new import statement or
\* the definition of a new local constant of the file
Inserted(fp, i) ==
    \/ NewImport(fp, i)
    \/ /\ \E k \in 1..Len(LocMap(report, fp)) :
             files[fp][i] = DefLine(LocMap(report, fp)[k].name, LocMap(report, fp)[k].value)
       /\ \A j \in 1..Len(start.files[fp]) : ReadLines(start.files[fp])[j] # files[fp][i]

InsertedLines(fp) == {i \in 1..Len(files[fp]) : Inserted(fp, i)}

\* the inserted lines are one block, and the line before the block is the
\* line of the original text that find_insertion_line names
BlockAtInsertionPoint(fp) ==
    LET ins == InsertedLines(fp)
        at == find_insertion_line(start.files[fp])
        first == CHOOSE i \in ins : \A j \in ins : i <= j
    IN  ins # {}
        => /\ \A i, j \in ins : \A k \in i..j : k \in ins
           /\ IF at = 0 THEN first = 1
              ELSE first > 1 /\ files[fp][first - 1] = ReadLines(start.files[fp])[at]

\* C26: in a file that was rewritten, the inserted import and the new local
\* definitions are one contiguous block directly after the insertion point
\* of the original text, also when definitions were removed in the pass.
C26_InsertionPlacement ==
    \A fp \in DOMAIN files :
        (/\ cfg.apply
         /\ WellFormed(report)
         /\ Rewritten(fp)
         /\ SpansInText(fp)
         /\ ~InSpan(fp, find_insertion_line(start.files[fp])))
        => BlockAtInsertionPoint(fp)

\* the placement holds in the runs whose cleanup removes no line above the
\* insertion point
C26_PlacementWithoutCleanupAbove ==
    \A fp \in DOMAIN files :
        (/\ cfg.apply
         /\ WellFormed(report)
         /\ Rewritten(fp)
         /\ SpansInText(fp)
         /\ ~InSpan(fp, find_insertion_line(start.files[fp]))
         /\ \A j \in 1..find_insertion_line(start.files[fp]) :
               ~IsLocalDefOf(start.files[fp][j], GlobalNamesIn(fp)))
        => BlockAtInsertionPoint(fp)

(***************************************************************************)
(* Properties of the refactor command: errors                              *)
(***************************************************************************)
\* C27: when process_report has raised the malformed-report error in apply
\* mode, the shared store and every source file are as they were before
\* the call.
C27_ErrorAtomicity ==
    (pc = "raised" /\ error.type = "ConstantipyError" /\ cfg.apply)
    => store = start.store /\ files = start.files

\* the source files are as they were when the malformed-report error is
\* raised: only the shared store is written before the report is parsed
C27_FilesUntouchedOnError ==
    (pc = "raised" /\ error.type = "ConstantipyError") => files = start.files

\* in preview mode the error leaves the store as it was too
C27_PreviewErrorAtomicity ==
    (pc = "raised" /\ error.type = "ConstantipyError" /\ ~cfg.apply)
    => store = start.store /\ files = start.files

(***************************************************************************)
(* Properties of the analysis: the entries of the report                   *)
(***************************************************************************)
\* the value groups that meet the minimum count
QualifyingGroups ==
    {k \in 1..Len(literal_map) : ~BelowMinimum(literal_map[k].occs, cfg.min_count)}

\* C28: the report that analyze returns has one entry for each value group
\* that meets the minimum count, holding the value and the occurrences of
\* the group; no entry is overwritten by the entry of a later value.
C28_NoLostEntries ==
    Analysed =>
        /\ Len(report) = Cardinality(QualifyingGroups)
        /\ \A k \in QualifyingGroups :
              \E i \in 1..Len(report) :
                  /\ report[i].value = literal_map[k].key
                  /\ report[i].occurrences = literal_map[k].occs

\* every entry of the report is the entry of a qualifying group, and no two
\* entries have the same name
C28_EntriesAreGroups ==
    Analysed =>
        /\ \A i \in 1..Len(report) :
              \E k \in QualifyingGroups :
                  /\ report[i].value = literal_map[k].key
                  /\ report[i].occurrences = literal_map[k].occs
        /\ \A i, j \in 1..Len(report) : report[i].name = report[j].name => i = j

(***************************************************************************)
(* Properties of the patch engine: spans outside the buffer                *)
(***************************************************************************)
\* the span does not lie inside the buffer: a line beyond the last line, or
\* a column beyond the end of its line
OutOfRange(lines, r) ==
    \/ r.start_line > Len(lines)
    \/ r.end_line > Len(lines)
    \/ r.start_line <= Len(lines) /\ r.start_col > Len(lines[r.start_line])
    \/ r.end_line <= Len(lines) /\ r.end_col > Len(lines[r.end_line])

\* process_report is past the file, or has stopped
PastPatch(fp) ==
    /\ pc \in {"patch", "done", "raised"}
    /\ fp \in FilesToProcess(report)
    /\ pc = "patch" => fp \notin toPatch

\* C29: a file all of whose replacements have spans outside its buffer,
\* single-line or multi-line, is patched without an exception and is left
\* as it was.
C29_OutOfRangeSkipped ==
    \A fp \in DOMAIN files :
        (/\ ReplacesOnly
         /\ PastPatch(fp)
         /\ \A r \in SpanSet(fp) : OutOfRange(ReadLines(start.files[fp]), r))
        => /\ error.type # "IndexError"
           /\ files[fp] = start.files[fp]

\* the spans the guards of _apply_replacements test for are skipped: a
\* start line beyond the last line, and an end column beyond the end of the
\* line of a single-line span
C29_GuardedSpansSkipped ==
    \A fp \in DOMAIN files :
        (/\ ReplacesOnly
         /\ PastPatch(fp)
         /\ \A r \in SpanSet(fp) :
               \/ r.start_line > Len(ReadLines(start.files[fp]))
               \/ /\ r.start_line = r.end_line
                  /\ r.end_col > Len(ReadLines(start.files[fp])[r.start_line]))
        => /\ error.type # "IndexError"
           /\ files[fp] = start.files[fp]

\* a multi-line span that ends beyond the last line of a file that was read
\* stops the run with an IndexError, and nothing is written
C29_EndBeyondBufferRaises ==
    \A fp \in DOMAIN files :
        (/\ ReplacesOnly
         /\ PastPatch(fp)
         /\ ~ErrorReading(fp)
         /\ \E r \in SpanSet(fp) :
               /\ SpanSet(fp) = {r}
               /\ r.start_line <= Len(ReadLines(start.files[fp]))
               /\ r.start_line < r.end_line
               /\ r.end_line > Len(ReadLines(start.files[fp])))
        => /\ error = [type |-> "IndexError", detail |-> fp]
           /\ files = start.files

(***************************************************************************)
(* Properties of the patch engine: the module of the import                *)
(***************************************************************************)
\* the names that line i of the file imports
ImportedBy(fp, i) ==
    {files[fp][i][t].n : t \in {u \in 4..Len(files[fp][i]) : files[fp][i][u].k = "name"}}

\* the global entries of the report that have the name
GlobalEntries(name) ==
    {report[k] : k \in {j \in 1..Len(report) :
                           report[j].scope = "global" /\ report[j].name = name}}

\* C30: an import statement inserted into a file names the module of the
\* shared store, and every name it imports is defined there: the entry of
\* the name has the shared store as its source_path.
C30_ImportsNameDefiningModule ==
    \A fp \in Paths : \A i \in 1..Len(files[fp]) :
        (pc \in {"patch", "done"} /\ NewImport(fp, i))
        => /\ files[fp][i][2] = Nm(ModuleName)
           /\ \A name \in ImportedBy(fp, i) : \A e \in GlobalEntries(name) :
                 e.source_path = ConstantsPath

\* every import statement inserted names the module of the target file,
\* whatever the source of the names it imports
C30_ImportsNameTargetModule ==
    \A fp \in Paths : \A i \in 1..Len(files[fp]) :
        (pc \in {"patch", "done"} /\ NewImport(fp, i))
        => /\ files[fp][i][2] = Nm(ModuleName)
           /\ \A name \in ImportedBy(fp, i) : GlobalEntries(name) # {}

\* without extra constants files the imported names are those of the shared
\* store
C30_StoreNamesOnly ==
    \A fp \in Paths : \A i \in 1..Len(files[fp]) :
        (pc \in {"patch", "done"} /\ NewImport(fp, i) /\ cfg.extra_files = <<>>)
        => \A name \in ImportedBy(fp, i) : \A e \in GlobalEntries(name) :
              e.source_path = ConstantsPath

====
